---- MODULE Spec2Model ----
(***************************************************************************)
(* Versioned upsert stores of the extracto storage service.                *)
(*                                                                         *)
(* ProductStorageService (collection "products") and                       *)
(* RealEstateStorageService (collection "real_estate_listings") each keep  *)
(* one document per uniqueKey.  upsertProduct / upsertListing read the     *)
(* stored document, build a $set or a new document from that read and the  *)
(* wall clock, and write it back: the read and the write are awaited, so   *)
(* calls of different callers interleave between them.  upsertProducts /   *)
(* upsertListings loop over a batch and count the outcome of every item.   *)
(*                                                                         *)
(* Strings that the code concatenates are sequences of one-character       *)
(* strings, so that generateUniqueKey is the concatenation the code does.  *)
(*                                                                         *)
(* Spec     two concurrent callers, each making one bulk call; every       *)
(*          await is an interleaving point.                                *)
(* SpecSeq  one caller upserting the same entity again and again, one      *)
(*          call after the other, long enough to fill the price history.   *)
(* SpecAlone    one caller making bulk calls with no concurrent writer.    *)
(* SpecExtract  an extraction orchestrator, its registered strategies and  *)
(*              one call of extractProducts or extractListings.            *)
(* SpecDomain   the domain of one URL as the store and the strategies      *)
(*              compute it.                                                *)
(* SpecPrice    the price of one raw record as each strategy reads it.     *)
(* SpecCurrency the currency code of one price string or symbol.           *)
(* SpecStored   Spec, started with one document already stored.            *)
(* SpecFields   single upserts of an entity with and without a rating.     *)
(* SpecJobs     the queue listener handling "completed" and "failed"       *)
(*              events, the raw job store and the two entity stores.       *)
(***************************************************************************)
EXTENDS Integers, Sequences, FiniteSets, TLC

(***************************************************************************)
(* Bounds of the model.                                                    *)
(***************************************************************************)
\* largest value of the wall clock in Spec
MaxClock == 1
\* largest number of entities offered to the store over all bulk calls
MaxItems == 3
\* largest number of single upserts in SpecSeq
MaxUpserts == 150

(***************************************************************************)
(* Program constant: the number of price-history entries a product keeps.  *)
(***************************************************************************)
PriceHistoryLimit == 100

\* concurrent callers of the bulk upsert (handlers of queue events)
Callers == {"c1", "c2"}

\* the two storage services
Services == {"products", "listings"}

\* source.domain values: a hostname label, as extractDomain returns it, the
\* literal a strategy writes, or a bracketed IPv6 host; a ":" occurs only
\* between the brackets
Domains ==
  { <<"x">>, <<"x", "y">>, <<"x", ".", "y">>, <<"[", ":", ":", "]">> }

\* productId / listingId values: free text of the scraped site
EntityIds ==
  { <<"p">>, <<"y", "p">>, <<":", "p">>, <<"y", ":", "p">>,
    <<":", "]", ":", "p">>, <<"]", ":", "p">> }

Prices ==
  { [amount |-> 10, currency |-> "USD"],
    [amount |-> 12, currency |-> "USD"],
    [amount |-> 10, currency |-> "PEN"] }

\* canonical entities (Product / RealEstateListing: identity, price,
\* provenance) offered to the store: one entity of site "x" at every price,
\* and one entity of site "xy" whose (domain, id) differs from the first's
\* only in where the two strings are cut
Entities ==
  { [domain |-> <<"x">>, id |-> <<"y", "p">>, price |-> p] : p \in Prices }
  \cup { [ domain |-> <<"x", "y">>, id |-> <<"p">>,
           price |-> [amount |-> 12, currency |-> "USD"] ] }

\* the entity SpecSeq upserts again and again, at price p
SeqEntity(p) == [domain |-> <<"x">>, id |-> <<"y", "p">>, price |-> p]

\* price schedules of SpecSeq, each repeated cyclically: amount changes,
\* currency-only changes, an unchanged price now and then, all three prices
Feeds ==
  { << [amount |-> 10, currency |-> "USD"], [amount |-> 12, currency |-> "USD"] >>,
    << [amount |-> 10, currency |-> "USD"], [amount |-> 10, currency |-> "PEN"] >>,
    << [amount |-> 10, currency |-> "USD"], [amount |-> 10, currency |-> "USD"],
       [amount |-> 12, currency |-> "USD"] >>,
    << [amount |-> 10, currency |-> "USD"], [amount |-> 12, currency |-> "USD"],
       [amount |-> 10, currency |-> "PEN"] >> }

VARIABLES
  service,      \* the storage service this behaviour exercises
  collection,   \* the service's collection handle is set (connected)
  docs,         \* the stored documents of the service's collection, by uniqueKey
  clock,        \* the wall clock read by new Date()
  pc,           \* pc[c]: where caller c is in its bulk upsert
  len,          \* len[c]: length of the batch of caller c
  idx,          \* idx[c]: index of the batch item in progress (1-based)
  item,         \* item[c]: the batch item in progress
  outer,        \* outer[c]: result of the bulk loop's own findOne
  existing,     \* existing[c]: result of findOne inside the single upsert
  now,          \* now[c]: the Date taken inside the single upsert
  op,           \* op[c]: the write the single upsert issued
  stats,        \* stats[c]: the counters {inserted, updated, errors}
  offered,      \* number of entities offered to the store so far
  feed,         \* the price schedule of SpecSeq
  tried,        \* history: tried[c] batch indexes whose single upsert was entered
  failed,       \* history: failed[c] the batch indexes whose single upsert
                \* threw, each with its error
  upserts,      \* history: upserts[k] successful single upserts of key k
  changes,      \* history: changes[k] of them, those that brought a new price
  raced,        \* history: raced[k] two single upserts of key k overlapped
  extractor,    \* the extraction orchestrator this behaviour exercises
  strategies,   \* the orchestrator's registered strategies, in order
  request,      \* the extract call made: its data and url
  result,       \* what that call returned
  arg,          \* the argument of a helper function called on its own
  ret,          \* what that call returned
  jobsCollection,      \* the handle of StorageService on "scrape_jobs" is set
  jobs,         \* the documents of "scrape_jobs", in insertion order
  listingsCollection,  \* the handle of RealEstateStorageService is set
  listings,     \* the documents of "real_estate_listings", by uniqueKey
  queue,        \* the jobs the queue holds: queue[jobId] is the job's data
  handled       \* history: the queue events handled so far, in order, each
                \* with whether its handler saved the raw record

vars ==
  << service, collection, docs, clock, pc, len, idx, item, outer, existing,
     now, op, stats, offered, feed, tried, failed, upserts, changes, raced,
     extractor, strategies, request, result, arg, ret,
     jobsCollection, jobs, listingsCollection, listings, queue, handled >>

\* the variables of the stores
storeVars ==
  << service, collection, docs, clock, pc, len, idx, item, outer, existing,
     now, op, stats, offered, feed, tried, failed, upserts, changes, raced >>

\* the variables of the extraction orchestrators and of the helper calls
extractVars == << extractor, strategies, request, result >>
callVars == << arg, ret >>

\* the variables of the queue listener and of the raw job store
jobVars == << jobsCollection, jobs, listingsCollection, listings, queue, handled >>

(***************************************************************************)
(* Pure helpers.                                                           *)
(***************************************************************************)

\* faulty variant: the two strings are joined without the separator
generateUniqueKeyNoSeparator(domain, id) == domain \o id

\* `${domain}:${productId}` / `${domain}:${listingId}`
generateUniqueKey(domain, id) == domain \o <<":">> \o id

\* every key an offered entity can have
AllKeys == { generateUniqueKey(e.domain, e.id) : e \in Entities }

\* findOne's "no document" and an unset local
Null == << >>
Some(d) == << d >>
IsNull(x) == x = Null
Val(x) == x[1]

\* collection.findOne({ uniqueKey })
findOne(key) ==
  IF key \in DOMAIN docs THEN Some(docs[key]) ELSE Null

\* faulty variant: a change of currency alone is not a price change
priceChangedAmountOnly(oldPrice, newPrice) ==
  oldPrice.amount # newPrice.amount

\* oldPrice.amount !== newPrice.amount || oldPrice.currency !== newPrice.currency
priceChanged(oldPrice, newPrice) ==
  \/ oldPrice.amount # newPrice.amount
  \/ oldPrice.currency # newPrice.currency

\* faulty variant: slice(0, n), which keeps the oldest n entries
SliceFirst(s, n) ==
  IF Len(s) <= n THEN s ELSE SubSeq(s, 1, n)

\* Array.prototype.slice(-n)
SliceLast(s, n) ==
  IF Len(s) <= n THEN s ELSE SubSeq(s, Len(s) - n + 1, Len(s))

\* { $set: updates }: the fields named in updates are overwritten; also the
\* object spread { ...d, ...updates }
SetFields(d, updates) ==
  [ f \in (DOMAIN d) \cup (DOMAIN updates) |->
      IF f \in DOMAIN updates THEN updates[f] ELSE d[f] ]

\* faulty variant: the version is incremented only when the price changed
ProductUpdatesVersionOnChange(ex, product, key, t) ==
  [ domain |-> product.domain,
    id |-> product.id,
    price |-> product.price,
    uniqueKey |-> key,
    lastSeenAt |-> t,
    lastUpdatedAt |-> t,
    version |->
      IF ex.price.amount # product.price.amount
           \/ ex.price.currency # product.price.currency
      THEN ex.version + 1
      ELSE ex.version,
    priceHistory |->
      IF ex.price.amount # product.price.amount
           \/ ex.price.currency # product.price.currency
      THEN Append(ex.priceHistory, [price |-> product.price, recordedAt |-> t])
      ELSE ex.priceHistory,
    firstSeenAt |-> ex.firstSeenAt ]

\* faulty variant: an unchanged price leaves lastSeenAt and lastUpdatedAt alone
ProductUpdatesSeenOnChange(ex, product, key, t) ==
  [ domain |-> product.domain,
    id |-> product.id,
    price |-> product.price,
    uniqueKey |-> key,
    lastSeenAt |->
      IF ex.price.amount # product.price.amount
           \/ ex.price.currency # product.price.currency
      THEN t
      ELSE ex.lastSeenAt,
    lastUpdatedAt |->
      IF ex.price.amount # product.price.amount
           \/ ex.price.currency # product.price.currency
      THEN t
      ELSE ex.lastUpdatedAt,
    version |-> ex.version + 1,
    priceHistory |->
      IF ex.price.amount # product.price.amount
           \/ ex.price.currency # product.price.currency
      THEN Append(ex.priceHistory, [price |-> product.price, recordedAt |-> t])
      ELSE ex.priceHistory,
    firstSeenAt |-> ex.firstSeenAt ]

\* faulty variant: the new history entry is put in front of the others
ProductUpdatesPrepends(ex, product, key, t) ==
  [ domain |-> product.domain,
    id |-> product.id,
    price |-> product.price,
    uniqueKey |-> key,
    lastSeenAt |-> t,
    lastUpdatedAt |-> t,
    version |-> ex.version + 1,
    priceHistory |->
      IF ex.price.amount # product.price.amount
           \/ ex.price.currency # product.price.currency
      THEN << [price |-> product.price, recordedAt |-> t] >> \o ex.priceHistory
      ELSE ex.priceHistory,
    firstSeenAt |-> ex.firstSeenAt ]

\* faulty variant: when the price is unchanged the $set document names no
\* priceHistory, so the stored history stays whatever it is at the write
ProductUpdatesLeavesHistory(ex, product, key, t) ==
  IF ex.price.amount # product.price.amount
       \/ ex.price.currency # product.price.currency
  THEN SetFields(product,
         [ uniqueKey |-> key,
           lastSeenAt |-> t,
           lastUpdatedAt |-> t,
           version |-> ex.version + 1,
           priceHistory |->
             Append(ex.priceHistory, [price |-> product.price, recordedAt |-> t]),
           firstSeenAt |-> ex.firstSeenAt ])
  ELSE SetFields(product,
         [ uniqueKey |-> key,
           lastSeenAt |-> t,
           lastUpdatedAt |-> t,
           version |-> ex.version + 1,
           firstSeenAt |-> ex.firstSeenAt ])

\* the $set document upsertProduct builds for an existing product
ProductUpdates(ex, product, key, t) ==
  SetFields(product,
    [ uniqueKey |-> key,
      lastSeenAt |-> t,
      lastUpdatedAt |-> t,
      version |-> ex.version + 1,
      priceHistory |->
        IF priceChanged(ex.price, product.price)
        THEN SliceLast(
               Append(ex.priceHistory, [price |-> product.price, recordedAt |-> t]),
               PriceHistoryLimit)
        ELSE ex.priceHistory,
      firstSeenAt |-> ex.firstSeenAt ])

\* faulty variant: a new product starts with an empty price history
NewStoredProductEmptyHistory(product, key, t) ==
  [ domain |-> product.domain,
    id |-> product.id,
    price |-> product.price,
    uniqueKey |-> key,
    firstSeenAt |-> t,
    lastSeenAt |-> t,
    lastUpdatedAt |-> t,
    version |-> 1,
    priceHistory |-> << >> ]

\* the document upsertProduct inserts for a new product
NewStoredProduct(product, key, t) ==
  SetFields(product,
    [ uniqueKey |-> key,
      firstSeenAt |-> t,
      lastSeenAt |-> t,
      lastUpdatedAt |-> t,
      version |-> 1,
      priceHistory |-> << [price |-> product.price, recordedAt |-> t] >> ])

\* faulty variant: an update stamps firstSeenAt like the other timestamps
ListingUpdatesResetFirstSeen(ex, listing, key, t) ==
  [ domain |-> listing.domain,
    id |-> listing.id,
    price |-> listing.price,
    uniqueKey |-> key,
    lastSeenAt |-> t,
    lastUpdatedAt |-> t,
    firstSeenAt |-> t,
    priceHistory |->
      IF listing.price.amount # ex.price.amount
      THEN Append(ex.priceHistory,
                  [ amount |-> ex.price.amount,
                    currency |-> ex.price.currency,
                    changedAt |-> t ])
      ELSE ex.priceHistory ]

\* the $set document upsertListing builds for an existing listing
ListingUpdates(ex, listing, key, t) ==
  SetFields(listing,
    [ uniqueKey |-> key,
      lastSeenAt |-> t,
      lastUpdatedAt |-> t,
      firstSeenAt |-> ex.firstSeenAt,
      priceHistory |->
        IF listing.price.amount # ex.price.amount
        THEN Append(ex.priceHistory,
                    [ amount |-> ex.price.amount,
                      currency |-> ex.price.currency,
                      changedAt |-> t ])
        ELSE ex.priceHistory ])

\* the document upsertListing inserts for a new listing
NewStoredListing(listing, key, t) ==
  SetFields(listing,
    [ uniqueKey |-> key,
      firstSeenAt |-> t,
      lastSeenAt |-> t,
      lastUpdatedAt |-> t,
      priceHistory |-> << >> ])

\* the write a single upsert issues after its read: if (existing) ... else ...
UpsertOp(s, ex, entity, key, t) ==
  IF IsNull(ex)
  THEN [ kind |-> "insertOne",
         key |-> key,
         doc |-> IF s = "products"
                 THEN NewStoredProduct(entity, key, t)
                 ELSE NewStoredListing(entity, key, t) ]
  ELSE [ kind |-> "updateOne",
         key |-> key,
         doc |-> IF s = "products"
                 THEN ProductUpdates(Val(ex), entity, key, t)
                 ELSE ListingUpdates(Val(ex), entity, key, t) ]

\* faulty variant: without the unique index no insert is rejected
NoUniqueIndex(w) == FALSE

\* the unique index on uniqueKey rejects a second document of the same key
DuplicateKey(w) == w.kind = "insertOne" /\ w.key \in DOMAIN docs

\* variant with an atomic counter: updateOne increments the version that is
\* stored at the time of the write ($inc) instead of setting the one computed
\* from the read
ApplyWriteAtomic(coll, w) ==
  IF w.kind = "insertOne"
  THEN [ k \in (DOMAIN coll) \cup {w.key} |->
           IF k = w.key THEN w.doc ELSE coll[k] ]
  ELSE IF w.key \in DOMAIN coll
       THEN [ coll EXCEPT ![w.key] =
                SetFields(coll[w.key],
                  IF "version" \in DOMAIN w.doc
                  THEN [w.doc EXCEPT !.version = coll[w.key].version + 1]
                  ELSE w.doc) ]
       ELSE coll

\* the collection after insertOne(doc) / updateOne({ uniqueKey }, { $set })
ApplyWrite(coll, w) ==
  IF w.kind = "insertOne"
  THEN [ k \in (DOMAIN coll) \cup {w.key} |->
           IF k = w.key THEN w.doc ELSE coll[k] ]
  ELSE IF w.key \in DOMAIN coll
       THEN [ coll EXCEPT ![w.key] = SetFields(coll[w.key], w.doc) ]
       ELSE coll

\* history: the write w stores a price other than the one stored now
BringsNewPrice(w) ==
  \/ w.key \notin DOMAIN docs
  \/ priceChanged(docs[w.key].price, w.doc.price)

NoOp == [kind |-> "none"]
ZeroStats == [inserted |-> 0, updated |-> 0, errors |-> 0]
Bump(s, f) == [s EXCEPT ![f] = @ + 1]

\* no extraction orchestrator is exercised
NoExtraction ==
  /\ extractor = "none"
  /\ strategies = << >>
  /\ request = << >>
  /\ result = << >>

\* no helper function is called on its own
NoCall ==
  /\ arg = << >>
  /\ ret = << >>

\* the queue listener is not exercised
NoJobs ==
  /\ jobsCollection = FALSE
  /\ jobs = << >>
  /\ listingsCollection = FALSE
  /\ listings = << >>
  /\ queue = << >>
  /\ handled = << >>

(***************************************************************************)
(* State after construction: no collection handle yet; the collection is   *)
(* empty.  The two services share no state (each has its own collection),  *)
(* so a behaviour exercises one of them, chosen here.                      *)
(***************************************************************************)
Init ==
  /\ service \in Services
  /\ collection = FALSE
  /\ docs = << >>
  /\ clock = 0
  /\ pc = [c \in Callers |-> "idle"]
  /\ len = [c \in Callers |-> 0]
  /\ idx = [c \in Callers |-> 0]
  /\ item = [c \in Callers |-> Null]
  /\ outer = [c \in Callers |-> Null]
  /\ existing = [c \in Callers |-> Null]
  /\ now = [c \in Callers |-> 0]
  /\ op = [c \in Callers |-> NoOp]
  /\ stats = [c \in Callers |-> ZeroStats]
  /\ offered = 0
  /\ feed = << >>
  /\ tried = [c \in Callers |-> << >>]
  /\ failed = [c \in Callers |-> {}]
  /\ upserts = [k \in AllKeys |-> 0]
  /\ changes = [k \in AllKeys |-> 0]
  /\ raced = [k \in AllKeys |-> FALSE]
  /\ NoExtraction
  /\ NoCall
  /\ NoJobs

\* the key of the item caller c is working on
KeyOf(c) == generateUniqueKey(Val(item[c]).domain, Val(item[c]).id)

\* caller c is between the read and the write of a single upsert
InFlight(c) == pc[c] \in {"compute", "write"}

\* the for loop moves to its next item, or the bulk upsert returns its
\* counters after the last one
NextItem(c) ==
  /\ idx' = [idx EXCEPT ![c] = @ + 1]
  /\ pc' = [pc EXCEPT ![c] = IF idx[c] >= len[c] THEN "done" ELSE "loop"]
  /\ item' = [item EXCEPT ![c] = Null]
  /\ outer' = [outer EXCEPT ![c] = Null]
  /\ existing' = [existing EXCEPT ![c] = Null]
  /\ now' = [now EXCEPT ![c] = 0]
  /\ op' = [op EXCEPT ![c] = NoOp]

\* faulty variant: no catch block, the error of one item leaves the bulk
\* upsert
RethrowItemError(c) ==
  /\ pc' = [pc EXCEPT ![c] = "raised"]
  /\ UNCHANGED << stats, idx, item, outer, existing, now, op >>

\* faulty variant: the catch block goes on without counting the error
SkipItemError(c) ==
  /\ stats' = stats
  /\ NextItem(c)

\* the loop's catch block: the error of one item is counted and the loop
\* goes on with the next item
CatchItemError(c) ==
  /\ stats' = [stats EXCEPT ![c] = Bump(@, "errors")]
  /\ NextItem(c)

\* the system clock advances
Tick ==
  /\ clock < MaxClock
  /\ clock' = clock + 1
  /\ UNCHANGED << service, collection, docs, pc, len, idx, item, outer,
                  existing, now, op, stats, offered, feed, tried, failed,
                  upserts, changes, raced >>
  /\ UNCHANGED << extractVars, callVars, jobVars >>

\* connect(): the collection handle is set (and the unique index created)
connect ==
  /\ ~collection
  /\ collection' = TRUE
  /\ UNCHANGED << service, docs, clock, pc, len, idx, item, outer, existing,
                  now, op, stats, offered, feed, tried, failed, upserts, changes, raced >>
  /\ UNCHANGED << extractVars, callVars, jobVars >>

\* upsertProducts(products) / upsertListings(listings) is called with n entities
upsertMany(c, n) ==
  /\ pc[c] = "idle"
  /\ offered + n <= MaxItems
  /\ offered' = offered + n
  /\ len' = [len EXCEPT ![c] = n]
  /\ idx' = [idx EXCEPT ![c] = 1]
  /\ stats' = [stats EXCEPT ![c] = ZeroStats]
  /\ pc' = [pc EXCEPT ![c] = IF n = 0 THEN "done" ELSE "loop"]
  /\ UNCHANGED << service, collection, docs, clock, item, outer, existing, now,
                  op, feed, tried, failed, upserts, changes, raced >>
  /\ UNCHANGED << extractVars, callVars, jobVars >>

\* one iteration of the for loop starts with the batch's next entity e:
\* upsertProducts first looks the key up itself (collection?.findOne), then
\* both services enter the single upsert, which throws at once when there is
\* no collection handle
LoopItem(c, e) ==
  /\ pc[c] = "loop"
  /\ tried' = [tried EXCEPT ![c] = Append(@, idx[c])]
  /\ IF collection
     THEN /\ item' = [item EXCEPT ![c] = Some(e)]
          /\ outer' = [outer EXCEPT ![c] =
               IF service = "products"
               THEN findOne(generateUniqueKey(e.domain, e.id))
               ELSE Null]
          /\ pc' = [pc EXCEPT ![c] = "find"]
          /\ UNCHANGED << idx, existing, now, op, stats, failed >>
     ELSE /\ failed' = [failed EXCEPT ![c] =
               @ \cup {[index |-> idx[c], error |-> "not connected"]}]
          /\ CatchItemError(c)
  /\ UNCHANGED << service, collection, docs, clock, len, offered, feed,
                  upserts, changes, raced >>
  /\ UNCHANGED << extractVars, callVars, jobVars >>

\* upsertProduct / upsertListing: existing = await collection.findOne({uniqueKey})
FindExisting(c) ==
  /\ pc[c] = "find"
  /\ existing' = [existing EXCEPT ![c] = findOne(KeyOf(c))]
  /\ raced' = [raced EXCEPT ![KeyOf(c)] =
       @ \/ \E d \in Callers \ {c} : InFlight(d) /\ KeyOf(d) = KeyOf(c)]
  /\ pc' = [pc EXCEPT ![c] = "compute"]
  /\ UNCHANGED << service, collection, docs, clock, len, idx, item, outer, now,
                  op, stats, offered, feed, tried, failed, upserts, changes >>
  /\ UNCHANGED << extractVars, callVars, jobVars >>

\* upsertProduct / upsertListing: now = new Date(), the updates or the new
\* document are built from the read, and the write is issued
BuildWrite(c) ==
  /\ pc[c] = "compute"
  /\ now' = [now EXCEPT ![c] = clock]
  /\ op' = [op EXCEPT ![c] =
       UpsertOp(service, existing[c], Val(item[c]), KeyOf(c), clock)]
  /\ pc' = [pc EXCEPT ![c] = "write"]
  /\ UNCHANGED << service, collection, docs, clock, len, idx, item, outer,
                  existing, stats, offered, feed, tried, failed, upserts, changes, raced >>
  /\ UNCHANGED << extractVars, callVars, jobVars >>

\* the store applies updateOne / insertOne.  A rejected insert throws out of
\* the single upsert into the loop's catch.  After a successful write
\* upsertProducts counts by its own earlier lookup; upsertListings goes on to
\* look the listing up again
Write(c) ==
  /\ pc[c] = "write"
  /\ IF DuplicateKey(op[c])
     THEN /\ failed' = [failed EXCEPT ![c] =
               @ \cup {[index |-> idx[c], error |-> "duplicate key"]}]
          /\ CatchItemError(c)
          /\ UNCHANGED << docs, upserts, changes >>
     ELSE /\ docs' = ApplyWrite(docs, op[c])
          /\ upserts' = [upserts EXCEPT ![op[c].key] = @ + 1]
          /\ changes' = [changes EXCEPT ![op[c].key] =
               IF BringsNewPrice(op[c]) THEN @ + 1 ELSE @]
          /\ IF service = "products"
             THEN /\ stats' = [stats EXCEPT ![c] =
                       Bump(@, IF IsNull(outer[c]) THEN "inserted" ELSE "updated")]
                  /\ NextItem(c)
             ELSE /\ pc' = [pc EXCEPT ![c] = "classify"]
                  /\ UNCHANGED << idx, item, outer, existing, now, op, stats >>
          /\ UNCHANGED failed
  /\ UNCHANGED << service, collection, clock, len, offered, feed, tried, raced >>
  /\ UNCHANGED << extractVars, callVars, jobVars >>

\* upsertListings: the listing is looked up after its upsert and counted as
\* inserted when firstSeenAt equals lastSeenAt, as updated otherwise
ClassifyListing(c) ==
  /\ pc[c] = "classify"
  /\ LET found == findOne(KeyOf(c))
     IN stats' = [stats EXCEPT ![c] =
          Bump(@, IF ~IsNull(found) /\ Val(found).firstSeenAt = Val(found).lastSeenAt
                  THEN "inserted" ELSE "updated")]
  /\ NextItem(c)
  /\ UNCHANGED << service, collection, docs, clock, len, offered, feed, tried,
                  failed, upserts, changes, raced >>
  /\ UNCHANGED << extractVars, callVars, jobVars >>

Next ==
  \/ Tick
  \/ connect
  \/ \E c \in Callers, n \in 0..MaxItems : upsertMany(c, n)
  \/ \E c \in Callers, e \in Entities : LoopItem(c, e)
  \/ \E c \in Callers : FindExisting(c)
  \/ \E c \in Callers : BuildWrite(c)
  \/ \E c \in Callers : Write(c)
  \/ \E c \in Callers : ClassifyListing(c)

Spec == Init /\ [][Next]_vars

(***************************************************************************)
(* SpecAlone: one caller makes bulk calls, one after the other, and nobody *)
(* else writes to the collection.                                          *)
(***************************************************************************)

\* return { inserted, updated, errors }: the caller has its counters and may
\* call again
returnStats(c) ==
  /\ pc[c] = "done"
  /\ pc' = [pc EXCEPT ![c] = "idle"]
  /\ tried' = [tried EXCEPT ![c] = << >>]
  /\ failed' = [failed EXCEPT ![c] = {}]
  /\ UNCHANGED << service, collection, docs, clock, len, idx, item, outer,
                  existing, now, op, stats, offered, feed, upserts, changes,
                  raced >>
  /\ UNCHANGED << extractVars, callVars, jobVars >>

NextAlone ==
  \/ Tick
  \/ connect
  \/ \E n \in 0..MaxItems : upsertMany("c1", n)
  \/ \E e \in Entities : LoopItem("c1", e)
  \/ FindExisting("c1")
  \/ BuildWrite("c1")
  \/ Write("c1")
  \/ ClassifyListing("c1")
  \/ returnStats("c1")

SpecAlone == Init /\ [][NextAlone]_vars

(***************************************************************************)
(* SpecSeq: after connect(), one caller upserts the same entity again and  *)
(* again, each call finished before the next begins, at the prices of a    *)
(* schedule chosen at the start; the clock advances by one between calls.  *)
(***************************************************************************)
SeqKey == generateUniqueKey(SeqEntity(feed[1]).domain, SeqEntity(feed[1]).id)

\* the price of the n-th single upsert of the schedule
FeedAt(n) == feed[((n - 1) % Len(feed)) + 1]

InitSeq ==
  /\ service \in Services
  /\ collection = FALSE
  /\ docs = << >>
  /\ clock = 0
  /\ pc = [c \in Callers |-> "idle"]
  /\ len = [c \in Callers |-> 0]
  /\ idx = [c \in Callers |-> 0]
  /\ item = [c \in Callers |-> Null]
  /\ outer = [c \in Callers |-> Null]
  /\ existing = [c \in Callers |-> Null]
  /\ now = [c \in Callers |-> 0]
  /\ op = [c \in Callers |-> NoOp]
  /\ stats = [c \in Callers |-> ZeroStats]
  /\ offered = 0
  /\ feed \in Feeds
  /\ tried = [c \in Callers |-> << >>]
  /\ failed = [c \in Callers |-> {}]
  /\ upserts = [k \in AllKeys |-> 0]
  /\ changes = [k \in AllKeys |-> 0]
  /\ raced = [k \in AllKeys |-> FALSE]
  /\ NoExtraction
  /\ NoCall
  /\ NoJobs

\* upsertProduct(product) / upsertListing(listing), from call to return with
\* no other call in between: read, build, write
upsertOne(e) ==
  /\ collection
  /\ offered < MaxUpserts
  /\ LET key == generateUniqueKey(e.domain, e.id)
         w == UpsertOp(service, findOne(key), e, key, clock)
     IN /\ ~DuplicateKey(w)
        /\ docs' = ApplyWrite(docs, w)
        /\ upserts' = [upserts EXCEPT ![key] = @ + 1]
        /\ changes' = [changes EXCEPT ![key] =
             IF BringsNewPrice(w) THEN @ + 1 ELSE @]
  /\ offered' = offered + 1
  /\ clock' = clock + 1
  /\ UNCHANGED << service, collection, pc, len, idx, item, outer, existing,
                  now, op, stats, feed, tried, failed, raced >>
  /\ UNCHANGED << extractVars, callVars, jobVars >>

NextSeq ==
  \/ connect
  \/ upsertOne(SeqEntity(FeedAt(offered + 1)))

SpecSeq == InitSeq /\ [][NextSeq]_vars

(***************************************************************************)
(* SpecStored: the two concurrent callers of Spec, started on a collection *)
(* that already holds one entity, stored at time 0 by an earlier run of    *)
(* the service.                                                            *)
(***************************************************************************)

\* the entity the collection holds at the start
StoredEntity ==
  [domain |-> <<"x">>, id |-> <<"y", "p">>, price |-> [amount |-> 10, currency |-> "USD"]]

StoredKey == generateUniqueKey(StoredEntity.domain, StoredEntity.id)

InitStored ==
  /\ service \in Services
  /\ collection = FALSE
  /\ docs = ApplyWrite(<< >>, UpsertOp(service, Null, StoredEntity, StoredKey, 0))
  /\ clock = 0
  /\ pc = [c \in Callers |-> "idle"]
  /\ len = [c \in Callers |-> 0]
  /\ idx = [c \in Callers |-> 0]
  /\ item = [c \in Callers |-> Null]
  /\ outer = [c \in Callers |-> Null]
  /\ existing = [c \in Callers |-> Null]
  /\ now = [c \in Callers |-> 0]
  /\ op = [c \in Callers |-> NoOp]
  /\ stats = [c \in Callers |-> ZeroStats]
  /\ offered = 0
  /\ feed = << >>
  /\ tried = [c \in Callers |-> << >>]
  /\ failed = [c \in Callers |-> {}]
  /\ upserts = [k \in AllKeys |-> IF k = StoredKey THEN 1 ELSE 0]
  /\ changes = [k \in AllKeys |-> IF k = StoredKey THEN 1 ELSE 0]
  /\ raced = [k \in AllKeys |-> FALSE]
  /\ NoExtraction
  /\ NoCall
  /\ NoJobs

SpecStored == InitStored /\ [][Next]_vars

(***************************************************************************)
(* SpecFields: after connect(), one caller upserts entities of one key,    *)
(* one call after the other; an entity carries the optional rating or      *)
(* omits it (a strategy adds the rating key only when there is a rating).  *)
(***************************************************************************)

\* largest number of single upserts in SpecFields
MaxRevisions == 3

\* the entity of key "x:yp" at every price, with a rating and without
RatedEntities ==
  { [domain |-> <<"x">>, id |-> <<"y", "p">>, price |-> p] :
      p \in Prices }
  \cup { [domain |-> <<"x">>, id |-> <<"y", "p">>, price |-> p,
          rating |-> [value |-> 4, totalReviews |-> 3]] :
           p \in Prices }

\* upsertProduct(product) / upsertListing(listing), from call to return with
\* no other call in between: read, build, write
upsertEntity(e) ==
  /\ collection
  /\ offered < MaxRevisions
  /\ LET key == generateUniqueKey(e.domain, e.id)
         w == UpsertOp(service, findOne(key), e, key, clock)
     IN /\ ~DuplicateKey(w)
        /\ docs' = ApplyWrite(docs, w)
        /\ upserts' = [upserts EXCEPT ![key] = @ + 1]
        /\ changes' = [changes EXCEPT ![key] =
             IF BringsNewPrice(w) THEN @ + 1 ELSE @]
  /\ offered' = offered + 1
  /\ clock' = clock + 1
  /\ UNCHANGED << service, collection, pc, len, idx, item, outer, existing,
                  now, op, stats, feed, tried, failed, raced >>
  /\ UNCHANGED << extractVars, callVars, jobVars >>

NextFields ==
  \/ connect
  \/ \E e \in RatedEntities : upsertEntity(e)

SpecFields == Init /\ [][NextFields]_vars

(***************************************************************************)
(* Text and JSON values.  A string is a sequence of pieces of text that    *)
(* the code never looks inside: single characters where it does look, a    *)
(* whole word or scheme elsewhere.  A number is counted in hundredths, so   *)
(* that 1250 is the number 12.5.                                           *)
(***************************************************************************)

\* String.prototype.includes
Includes(s, sub) ==
  \E i \in 1..(Len(s) - Len(sub) + 1) : SubSeq(s, i, i + Len(sub) - 1) = sub

\* String.prototype.startsWith
StartsWith(s, pre) ==
  Len(s) >= Len(pre) /\ SubSeq(s, 1, Len(pre)) = pre

\* the positions of the piece sep in s
Positions(s, sep) == { i \in 1..Len(s) : s[i] = sep }

\* String.prototype.split(sep), for a separator that is one piece: the n-th
\* part lies between the (n-1)-th and the n-th separator
Split(s, sep) ==
  LET at == Positions(s, sep)
      cut(n) == IF n = 0 THEN 0
                ELSE IF n = Cardinality(at) + 1 THEN Len(s) + 1
                ELSE CHOOSE i \in at : Cardinality({ j \in at : j < i }) = n - 1
  IN [ n \in 1..(Cardinality(at) + 1) |-> SubSeq(s, cut(n - 1) + 1, cut(n) - 1) ]

\* the values of JSON and of JavaScript that the payloads hold
JUndefined == [t |-> "undefined"]
JNull == [t |-> "null"]
JNaN == [t |-> "NaN"]
JNum(n) == [t |-> "number", n |-> n]
JStr(s) == [t |-> "string", s |-> s]
JBool(b) == [t |-> "boolean", b |-> b]
JArr(a) == [t |-> "array", a |-> a]
JObj(o) == [t |-> "object", o |-> o]

\* typeof x
TypeOf(x) ==
  CASE x.t = "NaN" -> "number"
    [] x.t \in {"null", "array"} -> "object"
    [] OTHER -> x.t

\* x is null or undefined: reading a property of x throws a TypeError
Nullish(x) == x.t \in {"undefined", "null"}

\* x.f for an x that is not null or undefined
Get(x, f) ==
  IF x.t = "object" /\ f \in DOMAIN x.o THEN x.o[f] ELSE JUndefined

\* x?.f
Opt(x, f) == IF Nullish(x) THEN JUndefined ELSE Get(x, f)

\* x[0] for an x that is not null or undefined: the first element of an
\* array, the first character of a string
First(x) ==
  CASE x.t = "array" /\ Len(x.a) > 0 -> x.a[1]
    [] x.t = "string" /\ Len(x.s) > 0 -> JStr(<< x.s[1] >>)
    [] OTHER -> JUndefined

\* the truthiness of x in a condition and in ||, &&, !
Truthy(x) ==
  CASE x.t \in {"undefined", "null", "NaN"} -> FALSE
    [] x.t = "number" -> x.n # 0
    [] x.t = "string" -> x.s # << >>
    [] x.t = "boolean" -> x.b
    [] OTHER -> TRUE

\* a || b || ... || last
RECURSIVE FirstTruthy(_, _)
FirstTruthy(xs, last) ==
  IF xs = << >> THEN last
  ELSE IF Truthy(Head(xs)) THEN Head(xs)
  ELSE FirstTruthy(Tail(xs), last)

\* what a call that may throw came to
Returned(v) == [threw |-> FALSE, value |-> v]
Threw(m) == [threw |-> TRUE, error |-> TRUE, message |-> m]
ThrewValue(v) == [threw |-> TRUE, error |-> FALSE, value |-> v]

\* the message of the TypeError that reading property f of undefined throws
CannotRead(f) == << "Cannot read properties of undefined (reading '", f, "')" >>
\* the message of the TypeError that calling a missing method f throws
NotAFunction(f) == << f, " is not a function" >>

Digits == << "0", "1", "2", "3", "4", "5", "6", "7", "8", "9" >>
IsDigit(ch) == \E d \in 1..10 : Digits[d] = ch
DigitValue(ch) == (CHOOSE d \in 1..10 : Digits[d] = ch) - 1

\* the number written by the digits ds
RECURSIVE DigitsValue(_)
DigitsValue(ds) ==
  IF ds = << >> THEN 0
  ELSE 10 * DigitsValue(SubSeq(ds, 1, Len(ds) - 1)) + DigitValue(ds[Len(ds)])

\* the length of the longest prefix of s made of digits
RECURSIVE DigitRun(_)
DigitRun(s) ==
  IF s # << >> /\ IsDigit(Head(s)) THEN 1 + DigitRun(Tail(s)) ELSE 0

\* parseFloat(s) for a string s: blanks are skipped, then an optional sign,
\* digits, and a point with digits are read; NaN when no digit was read.
\* (Exponents are not read: no modelled string holds one.  Hundredths: at
\* most two digits follow the point in the modelled strings.)
parseFloat(s) ==
  LET blanks == CHOOSE n \in 0..Len(s) :
                  /\ \A i \in 1..n : s[i] = " "
                  /\ (n = Len(s) \/ s[n + 1] # " ")
      t == SubSeq(s, blanks + 1, Len(s))
      signed == t # << >> /\ Head(t) \in {"-", "+"}
      u == IF signed THEN Tail(t) ELSE t
      nInt == DigitRun(u)
      afterInt == SubSeq(u, nInt + 1, Len(u))
      nFrac == IF afterInt # << >> /\ Head(afterInt) = "."
               THEN DigitRun(Tail(afterInt))
               ELSE 0
      frac == SubSeq(afterInt, 2, 1 + nFrac) \o << "0", "0" >>
      magnitude == 100 * DigitsValue(SubSeq(u, 1, nInt))
                     + DigitsValue(SubSeq(frac, 1, 2))
  IN IF nInt + nFrac = 0 THEN JNaN
     ELSE JNum(IF signed /\ Head(t) = "-" THEN 0 - magnitude ELSE magnitude)

\* the decimal digits of the natural number n
RECURSIVE NatToStr(_)
NatToStr(n) ==
  IF n < 10 THEN << Digits[n + 1] >>
  ELSE NatToStr(n \div 10) \o << Digits[(n % 10) + 1] >>

\* String(n) for a number n
NumToStr(n) ==
  LET m == IF n < 0 THEN 0 - n ELSE n
      whole == NatToStr(m \div 100)
      cents == m % 100
      frac == IF cents = 0 THEN << >>
              ELSE IF cents % 10 = 0 THEN << ".", Digits[(cents \div 10) + 1] >>
              ELSE << ".", Digits[(cents \div 10) + 1], Digits[(cents % 10) + 1] >>
  IN (IF n < 0 THEN << "-" >> ELSE << >>) \o whole \o frac

\* String(x)
RECURSIVE ToStr(_)
ToStr(x) ==
  CASE x.t = "string" -> x.s
    [] x.t = "number" -> NumToStr(x.n)
    [] x.t = "NaN" -> << "NaN" >>
    [] x.t = "boolean" -> IF x.b THEN << "true" >> ELSE << "false" >>
    [] x.t = "undefined" -> << "undefined" >>
    [] x.t = "null" -> << "null" >>
    [] x.t = "object" -> << "[object Object]" >>
    [] x.t = "array" ->
         IF x.a = << >> THEN << >>
         ELSE IF Len(x.a) = 1
              THEN (IF Nullish(x.a[1]) THEN << >> ELSE ToStr(x.a[1]))
              ELSE (IF Nullish(x.a[1]) THEN << >> ELSE ToStr(x.a[1]))
                     \o << "," >> \o ToStr(JArr(Tail(x.a)))

\* parseFloat(x) for any value x: the value is turned into a string first
parseFloatOf(x) ==
  IF x.t = "number" THEN x ELSE IF x.t = "NaN" THEN JNaN ELSE parseFloat(ToStr(x))

(***************************************************************************)
(* Helper functions of the strategies and of StorageService.               *)
(***************************************************************************)

\* new URL(url).hostname: a URL is a scheme, a host of labels and points and
\* then, behind the first "/", "?" or "#", the rest; anything else makes
\* new URL throw.  << >> stands for the throw.
Schemes == { "https://", "http://" }
HostEnd == { "/", "?", "#" }
hostname(url) ==
  IF url.t # "string" \/ url.s = << >> \/ url.s[1] \notin Schemes
  THEN << >>
  ELSE LET rest == Tail(url.s)
           ends == { i \in 1..Len(rest) : rest[i] \in HostEnd }
           stop == IF ends = {} THEN Len(rest) + 1
                   ELSE CHOOSE i \in ends : \A j \in ends : i <= j
       IN SubSeq(rest, 1, stop - 1)

\* hostname.replace(/^www\./, '')
withoutWww(host) ==
  IF StartsWith(host, << "www", "." >>) THEN SubSeq(host, 3, Len(host)) ELSE host

\* the domain of parts, given the labels taken for second-level domains
domainOfParts(parts, commonSLDs) ==
  IF Len(parts) >= 3
  THEN IF parts[Len(parts) - 1] \in commonSLDs
       THEN parts[Len(parts) - 2]
       ELSE parts[Len(parts) - 1]
  ELSE parts[1]

\* StorageService.extractDomain(url)
extractDomain(url) ==
  IF hostname(url) = << >>
  THEN << "unknown" >>
  ELSE domainOfParts(
         Split(withoutWww(hostname(url)), "."),
         { <<"com">>, <<"co">>, <<"org">>, <<"net">>, <<"gov">>, <<"edu">>, <<"ac">> })

\* BaseExtractionStrategy.extractDomain(url)
strategyExtractDomain(url) ==
  IF hostname(url) = << >>
  THEN << "unknown" >>
  ELSE domainOfParts(
         Split(withoutWww(hostname(url)), "."),
         { <<"com">>, <<"co">>, <<"org">>, <<"net">>, <<"gov">>, <<"edu">> })

\* s.replace(/[^0-9.]/g, ''): the digits and points of s
RECURSIVE DigitsAndPoints(_)
DigitsAndPoints(s) ==
  IF s = << >> THEN << >>
  ELSE IF IsDigit(Head(s)) \/ Head(s) = "."
       THEN << Head(s) >> \o DigitsAndPoints(Tail(s))
       ELSE DigitsAndPoints(Tail(s))

\* parseFloat(s) || 0
FloatOrZero(x) == IF Truthy(x) THEN x ELSE JNum(0)

\* BaseExtractionStrategy.parsePrice(priceStr)
parsePrice(priceStr) ==
  IF TypeOf(priceStr) = "number" THEN Returned(priceStr)
  ELSE IF priceStr.t = "string"
       THEN Returned(FloatOrZero(parseFloat(DigitsAndPoints(priceStr.s))))
       ELSE IF Nullish(priceStr)
            THEN Threw(CannotRead("replace"))
            ELSE Threw(NotAFunction("priceStr.replace"))

\* the currencyMap of extractCurrency, in the order of Object.entries
currencyMap ==
  << [symbol |-> << "S", "/" >>, code |-> << "PEN" >>],
     [symbol |-> << "$" >>, code |-> << "USD" >>],
     [symbol |-> << "€" >>, code |-> << "EUR" >>],
     [symbol |-> << "£" >>, code |-> << "GBP" >>],
     [symbol |-> << "¥" >>, code |-> << "JPY" >>],
     [symbol |-> << "R", "$" >>, code |-> << "BRL" >>],
     [symbol |-> << "A", "R", "S" >>, code |-> << "ARS" >>],
     [symbol |-> << "C", "O", "P" >>, code |-> << "COP" >>],
     [symbol |-> << "C", "L", "P" >>, code |-> << "CLP" >>] >>

\* BaseExtractionStrategy.extractCurrency(str) for a string str
extractCurrency(str) ==
  LET hits == { i \in 1..Len(currencyMap) : Includes(str, currencyMap[i].symbol) }
  IN IF hits = {} THEN << "USD" >>
     ELSE currencyMap[CHOOSE i \in hits : \A j \in hits : i <= j].code

\* extractCurrency(x) for any value x
extractCurrencyOf(x) ==
  CASE x.t = "string" -> Returned(extractCurrency(x.s))
    [] x.t = "array" ->
         LET hits == { i \in 1..Len(currencyMap) :
                         \E k \in 1..Len(x.a) : x.a[k] = JStr(currencyMap[i].symbol) }
         IN Returned(IF hits = {} THEN << "USD" >>
                     ELSE currencyMap[CHOOSE i \in hits : \A j \in hits : i <= j].code)
    [] Nullish(x) -> Threw(CannotRead("includes"))
    [] OTHER -> Threw(NotAFunction("str.includes"))

(***************************************************************************)
(* The extraction strategies.  An entity is kept with the fields the       *)
(* properties speak of: its id, its name, its price and its domain.  The   *)
(* modelled records hold no rating, image, sticker, type or category       *)
(* fields, so the parts of the code that read those are left out.          *)
(***************************************************************************)

FalabellaHost == << "falabella", ".", "com" >>
UrbaniaHost == << "urbania", ".", "pe" >>

\* url.includes(sub), for a url that is not an array
urlIncludes(url, sub) ==
  IF Nullish(url) THEN Threw(CannotRead("includes"))
  ELSE IF url.t = "string" THEN Returned(Includes(url.s, sub))
  ELSE Threw(NotAFunction("url.includes"))

\* x?.[0]
OptFirst(x) == IF Nullish(x) THEN JUndefined ELSE First(x)

\* the least element of a non-empty set of numbers
Least(S) == CHOOSE i \in S : \A j \in S : i <= j

\* FalabellaStrategy.canHandle(data, url)
FalabellaCanHandle(data, url) ==
  LET isFalabellaUrl == urlIncludes(url, FalabellaHost)
      hasNextJsStructure ==
        Opt(Opt(Opt(data, "props"), "pageProps"), "results") # JUndefined
      hasFalabellaProducts ==
        /\ data.t = "array"
        /\ Len(data.a) > 0
        /\ Opt(data.a[1], "displayName") # JUndefined
        /\ Opt(data.a[1], "mediaUrls") # JUndefined
  IN IF isFalabellaUrl.threw THEN isFalabellaUrl
     ELSE Returned(isFalabellaUrl.value \/ hasNextJsStructure \/ hasFalabellaProducts)

\* item.prices.find((p) => p.type === 'internetPrice') || item.prices[0]
internetPrice(prices) ==
  LET hit == { i \in 1..Len(prices) :
                 ~Nullish(prices[i]) /\ Get(prices[i], "type") = JStr(<< "internetPrice" >>) }
      bad == { i \in 1..Len(prices) : Nullish(prices[i]) }
  IN IF bad # {} /\ (hit = {} \/ Least(bad) < Least(hit))
     THEN Threw(CannotRead("type"))
     ELSE IF hit # {} THEN Returned(prices[Least(hit)]) ELSE Returned(prices[1])

\* the price object { amount, currency } built from two calls, unless one of
\* them threw
priceOf(amount, currency) ==
  IF amount.threw THEN amount
  ELSE IF currency.threw THEN currency
  ELSE Returned([amount |-> amount.value, currency |-> currency.value])

\* the entities mapped from the kept records, unless a call threw: the catch
\* block of extract returns the empty list
mappedOrEmpty(calls) ==
  IF \E i \in 1..Len(calls) : calls[i].threw THEN << >>
  ELSE [ i \in 1..Len(calls) |-> calls[i].value ]

\* a string value made of what a call returned
asString(call) == IF call.threw THEN call ELSE Returned(JStr(call.value))

\* FalabellaStrategy.extractPrice(rec)
FalabellaExtractPrice(rec) ==
  LET prices == Get(rec, "prices")
  IN IF prices.t = "array" /\ Len(prices.a) > 0
     THEN LET p == internetPrice(prices.a)
          IN IF p.threw THEN p
             ELSE priceOf(
                    parsePrice(FirstTruthy(
                      << OptFirst(Get(p.value, "price")), Get(p.value, "price") >>,
                      JStr(<< "0" >>))),
                    asString(extractCurrencyOf(FirstTruthy(
                      << Get(p.value, "symbol") >>, JStr(<< "S", "/", " " >>)))))
     ELSE priceOf(
            parsePrice(JStr(ToStr(FirstTruthy(<< Get(rec, "price") >>, JStr(<< "0" >>))))),
            asString(extractCurrencyOf(
              JStr(ToStr(FirstTruthy(<< Get(rec, "price") >>, JStr(<< "0" >>)))))))

\* FalabellaStrategy.normalizeProduct(rec, domain, sourceUrl, jobId)
FalabellaNormalizeProduct(rec, domain) ==
  LET price == FalabellaExtractPrice(rec)
  IN IF price.threw THEN price
     ELSE Returned([productId |-> FirstTruthy(<< Get(rec, "productId"), Get(rec, "skuId") >>,
                                              JStr(<< >>)),
                    name |-> FirstTruthy(<< Get(rec, "displayName") >>, JStr(<< >>)),
                    price |-> price.value,
                    domain |-> domain])

\* the products that FalabellaStrategy.extract takes out of data
FalabellaProducts(data) ==
  LET results == Opt(Opt(Opt(data, "props"), "pageProps"), "results")
  IN IF Truthy(results) THEN results
     ELSE IF data.t = "array" THEN data
     ELSE IF Truthy(Opt(data, "productId")) /\ Truthy(Opt(data, "displayName"))
          THEN JArr(<< data >>)
          ELSE JArr(<< >>)

\* the test of the filter in FalabellaStrategy.extract
FalabellaKeeps(rec) ==
  Truthy(Get(rec, "productId")) /\ Truthy(Get(rec, "displayName"))

\* FalabellaStrategy.extract(data, url, jobId): whatever is thrown inside is
\* caught and the empty list returned
FalabellaExtract(data, url) ==
  LET products == FalabellaProducts(data)
      domain == strategyExtractDomain(url)
  IN IF products.t # "array" THEN << >>
     ELSE IF \E i \in 1..Len(products.a) : Nullish(products.a[i]) THEN << >>
     ELSE LET kept == SelectSeq(products.a, FalabellaKeeps)
          IN mappedOrEmpty([ i \in 1..Len(kept) |->
                              FalabellaNormalizeProduct(kept[i], domain) ])

IdFields == << "id", "productId", "sku", "skuId", "asin" >>
NameFields == << "name", "title", "displayName", "productName" >>

\* GenericStrategy.looksLikeProduct(rec)
looksLikeProduct(rec) ==
  /\ Truthy(rec)
  /\ TypeOf(rec) = "object"
  /\ \E i \in 1..Len(IdFields) : Truthy(Get(rec, IdFields[i]))
  /\ \E i \in 1..Len(NameFields) : Truthy(Get(rec, NameFields[i]))

\* GenericStrategy.extractPrice(rec)
GenericExtractPrice(rec) ==
  priceOf(
    parsePrice(FirstTruthy(<< Get(rec, "price"), Get(rec, "currentPrice"),
                              Get(rec, "salePrice"), Get(rec, "amount") >>, JNum(0))),
    IF Truthy(Get(rec, "currency"))
    THEN Returned(IF Get(rec, "currency").t = "string"
                  THEN Get(rec, "currency")
                  ELSE JStr(<< "USD" >>))
    ELSE IF Truthy(Get(rec, "priceSymbol"))
         THEN asString(extractCurrencyOf(Get(rec, "priceSymbol")))
         ELSE Returned(JStr(<< "USD" >>)))

\* GenericStrategy.normalizeProduct(rec, domain, sourceUrl, jobId)
GenericNormalizeProduct(rec, domain) ==
  LET price == GenericExtractPrice(rec)
  IN IF price.threw THEN price
     ELSE Returned([productId |-> JStr(ToStr(FirstTruthy(
                                   << Get(rec, "id"), Get(rec, "productId"), Get(rec, "sku"),
                                      Get(rec, "skuId"), Get(rec, "asin") >>, JStr(<< >>)))),
                    name |-> JStr(ToStr(FirstTruthy(
                                   << Get(rec, "name"), Get(rec, "title"),
                                      Get(rec, "displayName") >>,
                                   JStr(<< "Unknown Product" >>)))),
                    price |-> price.value,
                    domain |-> domain])

\* the products that GenericStrategy.extract takes out of data
GenericProducts(data) ==
  IF data.t = "array" THEN data.a
  ELSE IF Opt(data, "products").t = "array" THEN Opt(data, "products").a
  ELSE IF Opt(data, "items").t = "array" THEN Opt(data, "items").a
  ELSE IF Opt(data, "results").t = "array" THEN Opt(data, "results").a
  ELSE IF looksLikeProduct(data) THEN << data >>
  ELSE << >>

\* GenericStrategy.extract(data, url, jobId)
GenericExtract(data, url) ==
  LET kept == SelectSeq(GenericProducts(data), looksLikeProduct)
      domain == strategyExtractDomain(url)
  IN mappedOrEmpty([ i \in 1..Len(kept) |-> GenericNormalizeProduct(kept[i], domain) ])

\* a page of HTML: a string, together with the cards that the selectors of
\* extractFromHTML find in it, each with its data-property-id attribute, the
\* text of its title and the text of its price ("" when the card has none)
JHtml(cards) == [t |-> "string", s |-> << "<html>" >>, cards |-> cards]
Cards(html) == IF "cards" \in DOMAIN html THEN html.cards ELSE << >>

\* `unknown-${Date.now()}` at the time t
unknownId(t) == << "unknown-" >> \o NatToStr(t)

\* (a || b || '').toLowerCase() throws for a value that is no string
lowerCaseThrows(rec, fields) ==
  FirstTruthy([ i \in 1..Len(fields) |-> Get(rec, fields[i]) ], JStr(<< >>)).t # "string"

\* UrbaniaStrategy.parseJsonListing(item, url, jobId) at the time t: the
\* listing, or null when something was thrown
parseJsonListing(rec, url, t) ==
  IF Nullish(rec) THEN JNull
  ELSE IF lowerCaseThrows(rec, << "type", "listingType" >>) THEN JNull
  ELSE IF lowerCaseThrows(rec, << "propertyType", "category" >>) THEN JNull
  ELSE JObj([listingId |-> JStr(ToStr(FirstTruthy(
                             << Get(rec, "id"), Get(rec, "listingId"), Get(rec, "propertyId") >>,
                             JStr(unknownId(t))))),
             title |-> FirstTruthy(<< Get(rec, "title"), Get(rec, "name") >>,
                                   JStr(<< "Sin título" >>)),
             price |-> [amount |-> parseFloatOf(FirstTruthy(
                                     << Opt(Get(rec, "price"), "amount"), Get(rec, "price") >>,
                                     JNum(0))),
                        currency |-> FirstTruthy(<< Opt(Get(rec, "price"), "currency") >>,
                                                 JStr(<< "PEN" >>))],
             domain |-> UrbaniaHost])

\* the listings among the parsed records: .filter(Boolean)
Listings(parsed) ==
  LET kept == SelectSeq(parsed, Truthy)
  IN [ i \in 1..Len(kept) |-> kept[i].o ]

\* UrbaniaStrategy.extractFromJSON(data, url, jobId) at the time t
extractFromJSON(data, url, t) ==
  IF data.t = "array"
  THEN Listings([ i \in 1..Len(data.a) |-> parseJsonListing(data.a[i], url, t) ])
  ELSE IF Get(data, "listings").t = "array"
  THEN Listings([ i \in 1..Len(Get(data, "listings").a) |->
                    parseJsonListing(Get(data, "listings").a[i], url, t) ])
  ELSE IF Get(data, "results").t = "array"
  THEN Listings([ i \in 1..Len(Get(data, "results").a) |->
                    parseJsonListing(Get(data, "results").a[i], url, t) ])
  ELSE IF Truthy(Get(data, "id")) \/ Truthy(Get(data, "listingId"))
  THEN Listings(<< parseJsonListing(data, url, t) >>)
  ELSE << >>

\* UrbaniaStrategy.parsePrice(priceText, url)
urbaniaParsePrice(priceText) ==
  [amount |-> FloatOrZero(parseFloat(DigitsAndPoints(priceText))),
   currency |-> JStr(<< "PEN" >>)]

\* UrbaniaStrategy.extractFromHTML(html, url, jobId) at the time t, for a
\* page without JSON-LD scripts and cards without links
extractFromHTML(html, url, t) ==
  LET kept == SelectSeq(Cards(html), LAMBDA card : card.title # << >>)
  IN [ i \in 1..Len(kept) |->
         [listingId |-> JStr(IF kept[i].id # << >> THEN kept[i].id ELSE unknownId(t)),
          title |-> JStr(kept[i].title),
          price |-> urbaniaParsePrice(kept[i].price),
          domain |-> UrbaniaHost] ]

\* UrbaniaStrategy.canHandle(data, url)
UrbaniaCanHandle(data, url) == urlIncludes(url, UrbaniaHost)

\* UrbaniaStrategy.extract(data, url, jobId) at the time t
UrbaniaExtract(data, url, t) ==
  IF data.t = "null" THEN << >>
  ELSE IF TypeOf(data) = "object" /\ Truthy(Get(data, "html"))
  THEN extractFromHTML(Get(data, "html"), url, t)
  ELSE IF TypeOf(data) = "string" THEN extractFromHTML(data, url, t)
  ELSE IF TypeOf(data) = "object" THEN extractFromJSON(data, url, t)
  ELSE << >>

(***************************************************************************)
(* The extraction orchestrators: ProductExtractorService and               *)
(* RealEstateExtractorService.  A registered strategy is one of the        *)
(* strategies of the repository, which run their code, or a strategy of    *)
(* the caller, which does what its canHandle and extract fields say.       *)
(***************************************************************************)

\* largest number of registered strategies
MaxStrategies == 2
\* largest number of raw records in a payload
MaxRecords == 2

Falabella == [name |-> "Falabella", canHandle |-> "code", extract |-> "code"]
Generic == [name |-> "Generic", canHandle |-> "code", extract |-> "code"]
Urbania == [name |-> "Urbania", canHandle |-> "code", extract |-> "code"]

\* strategies a caller registers
Customs ==
  { [name |-> "CustomA", canHandle |-> "true", extract |-> "returns"],
    [name |-> "CustomB", canHandle |-> "true", extract |-> "throws Error"],
    [name |-> "CustomC", canHandle |-> "true", extract |-> "throws value"],
    [name |-> "CustomD", canHandle |-> "true", extract |-> "returns undefined"],
    [name |-> "CustomE", canHandle |-> "false", extract |-> "returns"],
    [name |-> "CustomF", canHandle |-> "throws Error", extract |-> "returns"],
    [name |-> "CustomG", canHandle |-> "throws value", extract |-> "returns"] }

\* the message of the Error a strategy of the caller throws ("throws
\* Error"), and the string that it throws as it is ("throws value")
CustomMessage == << "boom" >>

\* strategy.canHandle(data, url)
canHandle(strategy, data, url) ==
  CASE strategy.name = "Falabella" -> FalabellaCanHandle(data, url)
    [] strategy.name = "Urbania" -> UrbaniaCanHandle(data, url)
    [] strategy.name = "Generic" -> Returned(TRUE)
    [] strategy.canHandle = "throws Error" -> Threw(CustomMessage)
    [] strategy.canHandle = "throws value" -> ThrewValue(JStr(CustomMessage))
    [] OTHER -> Returned(strategy.canHandle = "true")

\* strategy.extract(data, url, jobId) at the time t, followed by the read of
\* the length of what it returned
extract(strategy, data, url, t) ==
  CASE strategy.name = "Falabella" -> Returned(FalabellaExtract(data, url))
    [] strategy.name = "Urbania" -> Returned(UrbaniaExtract(data, url, t))
    [] strategy.name = "Generic" -> Returned(GenericExtract(data, url))
    [] strategy.extract = "throws Error" -> Threw(CustomMessage)
    [] strategy.extract = "throws value" -> ThrewValue(JStr(CustomMessage))
    [] strategy.extract = "returns undefined" -> Threw(CannotRead("length"))
    [] OTHER -> Returned(<< >>)

\* the loop of findStrategy: the first registered strategy whose canHandle
\* returns true or throws decides; JNull when there is none
\* faulty variant: the last registered strategy that claims the payload wins
lastDecided(registered, calls) ==
  LET decides == { i \in 1..Len(calls) : calls[i].threw \/ calls[i].value }
      last == CHOOSE i \in decides : \A j \in decides : j <= i
  IN IF decides = {} THEN Returned(JNull)
     ELSE IF calls[last].threw THEN calls[last]
     ELSE Returned(registered[last])

firstDecided(registered, calls) ==
  LET decides == { i \in 1..Len(calls) : calls[i].threw \/ calls[i].value }
  IN IF decides = {} THEN Returned(JNull)
     ELSE IF calls[Least(decides)].threw THEN calls[Least(decides)]
     ELSE Returned(registered[Least(decides)])

firstToHandle(registered, data, url) ==
  firstDecided(registered,
               [ i \in 1..Len(registered) |-> canHandle(registered[i], data, url) ])

\* ProductExtractorService.findStrategy(data, url)
orFallback(first) ==
  IF ~first.threw /\ first.value = JNull THEN Returned(Generic) ELSE first

findStrategy(registered, data, url) == orFallback(firstToHandle(registered, data, url))

\* RealEstateExtractorService.findStrategy(data, url)
findListingStrategy(registered, data, url) == firstToHandle(registered, data, url)

\* the text of the entry of errors for what was thrown
errorMsg(thrown) == IF thrown.error THEN thrown.message ELSE << "Unknown error" >>

\* the catch block of extractProducts and of extractListings
rethrowExtractionError(thrown) == thrown
catchExtractionError(thrown) ==
  Returned([entities |-> << >>,
            metadata |-> [totalExtracted |-> 0,
                          errors |-> << << "Extraction error: " >> \o errorMsg(thrown) >>]])

\* the result of a strategy that ran, or of the catch block when it threw
extracted(strategy, call) ==
  IF call.threw THEN catchExtractionError(call)
  ELSE Returned([entities |-> call.value,
                 metadata |-> [totalExtracted |-> Len(call.value),
                               strategyUsed |-> strategy.name]])

\* the result of extractListings when findStrategy returned null
noStrategyFound ==
  Returned([entities |-> << >>,
            metadata |-> [totalExtracted |-> 0,
                          errors |-> << << "No strategy found for this real estate site" >> >>]])

\* a faulty try block: a strategy that returns no entity is followed by a
\* second run with the generic fallback
runStrategyThenFallback(found, data, url, t) ==
  IF found.threw THEN catchExtractionError(found)
  ELSE LET first == extract(found.value, data, url, t)
       IN  IF ~first.threw /\ first.value = << >>
           THEN extracted(Generic, extract(Generic, data, url, t))
           ELSE extracted(found.value, first)

\* the try block of extractProducts, given what findStrategy came to
runStrategy(found, data, url, t) ==
  IF found.threw THEN catchExtractionError(found)
  ELSE extracted(found.value, extract(found.value, data, url, t))

\* the try block of extractListings, given what findStrategy came to
runListingStrategy(found, data, url, t) ==
  IF found.threw THEN catchExtractionError(found)
  ELSE IF found.value = JNull THEN noStrategyFound
  ELSE extracted(found.value, extract(found.value, data, url, t))

\* the body of extractProducts(data, url, jobId) at the time t
extractProductsResult(registered, data, url, t) ==
  runStrategy(findStrategy(registered, data, url), data, url, t)

\* the body of extractListings(data, url, jobId) at the time t
extractListingsResult(registered, data, url, t) ==
  runListingStrategy(findListingStrategy(registered, data, url), data, url, t)

(***************************************************************************)
(* SpecExtract: one orchestrator, the strategies registered with it and    *)
(* one call of its extract method.  The orchestrators keep nothing from    *)
(* one call to the next, so request and result hold the one call that a    *)
(* behaviour looks at.                                                     *)
(***************************************************************************)

FalabellaRecord ==
  JObj([productId |-> JStr(<< "p1" >>), displayName |-> JStr(<< "tv" >>),
        mediaUrls |-> JArr(<< >>), price |-> JStr(<< "S", "/", " ", "1", "0" >>)])
GenericRecord ==
  JObj([id |-> JStr(<< "g1" >>), name |-> JStr(<< "tv" >>), price |-> JNum(500)])
UrbaniaRecord ==
  JObj([id |-> JStr(<< "u1" >>), title |-> JStr(<< "flat" >>),
        price |-> JObj([amount |-> JNum(9000000), currency |-> JStr(<< "USD" >>)])])

\* a record without an id, a record that is null, a record that is a number
NoIdRecord == JObj([name |-> JStr(<< "tv" >>)])
Malformed == { NoIdRecord, JNull, JNum(700) }

Records == { FalabellaRecord, GenericRecord, UrbaniaRecord } \cup Malformed

\* the lists of at most n raw records
RecordLists(n) == UNION { [1..m -> Records] : m \in 0..n }

Pages ==
  { JHtml(<< >>),
    JHtml(<< [id |-> << "77" >>, title |-> << "flat" >>,
              price |-> << "S", "/", " ", "9", "0", "0" >>],
             [id |-> << "78" >>, title |-> << >>, price |-> << >>] >>),
    JHtml(<< [id |-> << >>, title |-> << "house" >>, price |-> << "$", "5" >>] >>) }

Payloads ==
  { JArr(l) : l \in RecordLists(MaxRecords) }
    \cup { JObj([products |-> JArr(l)]) : l \in RecordLists(1) }
    \cup { JObj([items |-> JArr(l)]) : l \in RecordLists(1) }
    \cup { JObj([results |-> JArr(l)]) : l \in RecordLists(1) }
    \cup { JObj([listings |-> JArr(l)]) : l \in RecordLists(1) }
    \cup { JObj([props |-> JObj([pageProps |-> JObj([results |-> JArr(l)])])]) :
             l \in RecordLists(1) }
    \cup { JObj([props |-> JObj([pageProps |-> JObj([results |-> FalabellaRecord])])]) }
    \cup Records
    \cup Pages
    \cup { JObj([html |-> page]) : page \in Pages }
    \cup { JUndefined }

FalabellaUrl ==
  JStr(<< "https://", "www", ".", "falabella", ".", "com", ".", "pe", "/", "tv" >>)
UrbaniaUrl == JStr(<< "https://", "urbania", ".", "pe", "/", "alquiler" >>)
OtherUrl == JStr(<< "https://", "shop", ".", "example", ".", "com", "/" >>)
NotAUrl == JStr(<< "not a url" >>)
Urls == { FalabellaUrl, UrbaniaUrl, OtherUrl, NotAUrl, JUndefined }

\* the state after the constructor of one of the two orchestrators; the
\* stores are not exercised
InitExtract ==
  /\ service = "products"
  /\ collection = FALSE
  /\ docs = << >>
  /\ clock = 0
  /\ pc = [c \in Callers |-> "idle"]
  /\ len = [c \in Callers |-> 0]
  /\ idx = [c \in Callers |-> 0]
  /\ item = [c \in Callers |-> Null]
  /\ outer = [c \in Callers |-> Null]
  /\ existing = [c \in Callers |-> Null]
  /\ now = [c \in Callers |-> 0]
  /\ op = [c \in Callers |-> NoOp]
  /\ stats = [c \in Callers |-> ZeroStats]
  /\ offered = 0
  /\ feed = << >>
  /\ tried = [c \in Callers |-> << >>]
  /\ failed = [c \in Callers |-> {}]
  /\ upserts = [k \in AllKeys |-> 0]
  /\ changes = [k \in AllKeys |-> 0]
  /\ raced = [k \in AllKeys |-> FALSE]
  /\ extractor \in { "products", "realEstate" }
  /\ strategies = IF extractor = "products" THEN << Falabella >> ELSE << Urbania >>
  /\ request = << >>
  /\ result = << >>
  /\ NoCall
  /\ NoJobs

\* registerStrategy(strategy)
registerStrategy(strategy) ==
  /\ request = << >>
  /\ Len(strategies) < MaxStrategies
  /\ strategies' = Append(strategies, strategy)
  /\ UNCHANGED << extractor, request, result >>
  /\ UNCHANGED << storeVars, callVars, jobVars >>

\* ProductExtractorService.extractProducts(data, url, jobId)
extractProducts(data, url) ==
  /\ extractor = "products"
  /\ request = << >>
  /\ request' = << [data |-> data, url |-> url] >>
  /\ result' = << extractProductsResult(strategies, data, url, clock) >>
  /\ UNCHANGED << extractor, strategies >>
  /\ UNCHANGED << storeVars, callVars, jobVars >>

\* RealEstateExtractorService.extractListings(data, url, jobId)
extractListings(data, url) ==
  /\ extractor = "realEstate"
  /\ request = << >>
  /\ request' = << [data |-> data, url |-> url] >>
  /\ result' = << extractListingsResult(strategies, data, url, clock) >>
  /\ UNCHANGED << extractor, strategies >>
  /\ UNCHANGED << storeVars, callVars, jobVars >>

NextExtract ==
  \/ \E strategy \in Customs : registerStrategy(strategy)
  \/ \E data \in Payloads, url \in Urls : extractProducts(data, url)
  \/ \E data \in Payloads, url \in Urls : extractListings(data, url)

SpecExtract == InitExtract /\ [][NextExtract]_vars

(***************************************************************************)
(* SpecDomain: the domain of one URL as each place of the code computes    *)
(* it: StorageService for the raw job record, a product strategy for the   *)
(* source of its entities, and UrbaniaStrategy for the source of its       *)
(* listings.                                                               *)
(***************************************************************************)

\* largest number of labels of a hostname
MaxLabels == 4

Labels == { "www", "shop", "site", "co", "com", "ac", "uk", "pe", "urbania" }

\* the labels joined by points
RECURSIVE Dotted(_)
Dotted(labels) ==
  IF Len(labels) = 1 THEN << labels[1] >>
  ELSE << labels[1], "." >> \o Dotted(Tail(labels))

\* the URL https://<labels>/x
UrlOf(labels) == JStr(<< "https://" >> \o Dotted(labels) \o << "/", "x" >>)

\* strings that new URL rejects, and a url that is missing
Unparseable ==
  { NotAUrl, JStr(<< "site", ".", "com" >>), JStr(<< "https://" >>), JStr(<< >>), JUndefined }

DomainInputs ==
  { UrlOf(labels) : labels \in UNION { [1..n -> Labels] : n \in 1..MaxLabels } }
    \cup Unparseable

NoDomains == [store |-> << >>, strategy |-> << >>, listing |-> << >>]

InitDomain ==
  /\ service = "products"
  /\ collection = FALSE
  /\ docs = << >>
  /\ clock = 0
  /\ pc = [c \in Callers |-> "idle"]
  /\ len = [c \in Callers |-> 0]
  /\ idx = [c \in Callers |-> 0]
  /\ item = [c \in Callers |-> Null]
  /\ outer = [c \in Callers |-> Null]
  /\ existing = [c \in Callers |-> Null]
  /\ now = [c \in Callers |-> 0]
  /\ op = [c \in Callers |-> NoOp]
  /\ stats = [c \in Callers |-> ZeroStats]
  /\ offered = 0
  /\ feed = << >>
  /\ tried = [c \in Callers |-> << >>]
  /\ failed = [c \in Callers |-> {}]
  /\ upserts = [k \in AllKeys |-> 0]
  /\ changes = [k \in AllKeys |-> 0]
  /\ raced = [k \in AllKeys |-> FALSE]
  /\ NoExtraction
  /\ arg \in { << url >> : url \in DomainInputs }
  /\ ret = NoDomains
  /\ NoJobs

\* StorageService.saveResult: domain = this.extractDomain(result.url)
storageExtractDomain ==
  /\ ret.store = << >>
  /\ ret' = [ret EXCEPT !.store = << extractDomain(arg[1]) >>]
  /\ UNCHANGED << storeVars, extractVars, arg, jobVars >>

\* FalabellaStrategy.extract / GenericStrategy.extract:
\* domain = this.extractDomain(url)
strategyDomain ==
  /\ ret.strategy = << >>
  /\ ret' = [ret EXCEPT !.strategy = << strategyExtractDomain(arg[1]) >>]
  /\ UNCHANGED << storeVars, extractVars, arg, jobVars >>

\* UrbaniaStrategy, for a url that it handles: domain: 'urbania.pe'
listingDomain ==
  /\ ret.listing = << >>
  /\ ~UrbaniaCanHandle(JNull, arg[1]).threw
  /\ UrbaniaCanHandle(JNull, arg[1]).value
  /\ ret' = [ret EXCEPT !.listing = << UrbaniaHost >>]
  /\ UNCHANGED << storeVars, extractVars, arg, jobVars >>

NextDomain == storageExtractDomain \/ strategyDomain \/ listingDomain

SpecDomain == InitDomain /\ [][NextDomain]_vars

(***************************************************************************)
(* SpecPrice: the price of one raw record as each strategy reads it.       *)
(***************************************************************************)

\* largest number of characters of a generated price string
MaxChars == 3

PriceChars == { "1", "5", ".", ",", "$", "S", "/" }

\* the price strings of at most MaxChars characters, and some longer ones
PriceStrings ==
  UNION { [1..n -> PriceChars] : n \in 0..MaxChars }
    \cup { << "S", "/", " ", "1", "0" >>, << "R", "$", " ", "5" >>,
           << "1", ",", "2", "9", "9", ".", "5", "0" >> }

\* raw price values: strings, numbers, arrays, objects, booleans, null
RawPrices ==
  { JStr(str) : str \in PriceStrings }
    \cup { JNum(0), JNum(1250) }
    \cup { JArr(<< >>), JArr(<< JStr(<< "1", ",", "2", "9", "9" >>) >>), JArr(<< JNum(500) >>) }
    \cup { JObj([amount |-> JNum(500), currency |-> JStr(<< "USD" >>)]) }
    \cup { JBool(TRUE), JBool(FALSE), JNull }

\* raw records: a price alone, a price with a currency code, a price with a
\* price symbol, and a Falabella list of prices
PricedRecords ==
  { JObj([price |-> raw]) : raw \in RawPrices }
    \cup { JObj([price |-> JStr(str), currency |-> JStr(<< "EUR" >>)]) :
             str \in { << "1", "5" >>, << "$", "5" >>, << "S", "/", " ", "1", "0" >> } }
    \cup { JObj([price |-> JNum(1250), priceSymbol |-> JStr(sym)]) :
             sym \in { << "S", "/" >>, << "R", "$" >>, << "€" >> } }
    \cup { JObj([prices |-> JArr(<< JObj([type |-> JStr(<< "internetPrice" >>),
                                          price |-> raw,
                                          symbol |-> JStr(<< "S", "/", " " >>)]) >>)]) :
             raw \in { JStr(<< "1", "5" >>), JArr(<< JStr(<< "1", ",", "2", "9", "9" >>) >>),
                       JNum(1250), JObj([amount |-> JNum(500)]) } }

NoPrices == [falabella |-> << >>, generic |-> << >>, urbania |-> << >>]

InitPrice ==
  /\ service = "products"
  /\ collection = FALSE
  /\ docs = << >>
  /\ clock = 0
  /\ pc = [c \in Callers |-> "idle"]
  /\ len = [c \in Callers |-> 0]
  /\ idx = [c \in Callers |-> 0]
  /\ item = [c \in Callers |-> Null]
  /\ outer = [c \in Callers |-> Null]
  /\ existing = [c \in Callers |-> Null]
  /\ now = [c \in Callers |-> 0]
  /\ op = [c \in Callers |-> NoOp]
  /\ stats = [c \in Callers |-> ZeroStats]
  /\ offered = 0
  /\ feed = << >>
  /\ tried = [c \in Callers |-> << >>]
  /\ failed = [c \in Callers |-> {}]
  /\ upserts = [k \in AllKeys |-> 0]
  /\ changes = [k \in AllKeys |-> 0]
  /\ raced = [k \in AllKeys |-> FALSE]
  /\ NoExtraction
  /\ arg \in { << rec >> : rec \in PricedRecords }
  /\ ret = NoPrices
  /\ NoJobs

\* FalabellaStrategy.extractPrice(item)
falabellaExtractPrice ==
  /\ ret.falabella = << >>
  /\ ret' = [ret EXCEPT !.falabella = << FalabellaExtractPrice(arg[1]) >>]
  /\ UNCHANGED << storeVars, extractVars, arg, jobVars >>

\* GenericStrategy.extractPrice(item)
genericExtractPrice ==
  /\ ret.generic = << >>
  /\ ret' = [ret EXCEPT !.generic = << GenericExtractPrice(arg[1]) >>]
  /\ UNCHANGED << storeVars, extractVars, arg, jobVars >>

\* the price of UrbaniaStrategy.parseJsonListing(item, url, jobId)
urbaniaPrice ==
  /\ ret.urbania = << >>
  /\ ret' = [ret EXCEPT !.urbania =
               << Returned(parseJsonListing(arg[1], UrbaniaUrl, clock).o.price) >>]
  /\ UNCHANGED << storeVars, extractVars, arg, jobVars >>

NextPrice == falabellaExtractPrice \/ genericExtractPrice \/ urbaniaPrice

SpecPrice == InitPrice /\ [][NextPrice]_vars

(***************************************************************************)
(* SpecCurrency: the currency code that extractCurrency gives for one      *)
(* price string or symbol.                                                 *)
(***************************************************************************)

\* largest number of digits after the symbol
MaxDigits == 2

\* the strings of 1..MaxDigits digits
DigitStrings == UNION { [1..n -> { "0", "1", "5" }] : n \in 1..MaxDigits }

\* the symbols of the table
TableSymbols == { currencyMap[i].symbol : i \in 1..Len(currencyMap) }

\* texts that contain no symbol of the table
NoSymbol == { << >>, << "P", "E", "N" >>, << "U", "S", "D", " " >>, << "s", "/", " " >> }

\* a symbol of the table, or a text without one, followed by digits
CurrencyInputs ==
  { prefix \o digits : prefix \in TableSymbols \cup NoSymbol, digits \in DigitStrings }

InitCurrency ==
  /\ service = "products"
  /\ collection = FALSE
  /\ docs = << >>
  /\ clock = 0
  /\ pc = [c \in Callers |-> "idle"]
  /\ len = [c \in Callers |-> 0]
  /\ idx = [c \in Callers |-> 0]
  /\ item = [c \in Callers |-> Null]
  /\ outer = [c \in Callers |-> Null]
  /\ existing = [c \in Callers |-> Null]
  /\ now = [c \in Callers |-> 0]
  /\ op = [c \in Callers |-> NoOp]
  /\ stats = [c \in Callers |-> ZeroStats]
  /\ offered = 0
  /\ feed = << >>
  /\ tried = [c \in Callers |-> << >>]
  /\ failed = [c \in Callers |-> {}]
  /\ upserts = [k \in AllKeys |-> 0]
  /\ changes = [k \in AllKeys |-> 0]
  /\ raced = [k \in AllKeys |-> FALSE]
  /\ NoExtraction
  /\ arg \in { << str >> : str \in CurrencyInputs }
  /\ ret = << >>
  /\ NoJobs

\* this.extractCurrency(str), as extractPrice calls it
callExtractCurrency ==
  /\ ret = << >>
  /\ ret' = << extractCurrency(arg[1]) >>
  /\ UNCHANGED << storeVars, extractVars, arg, jobVars >>

NextCurrency == callExtractCurrency

SpecCurrency == InitCurrency /\ [][NextCurrency]_vars

(***************************************************************************)
(* The queue listener and the raw job store: QueueListenerService handles  *)
(* the "completed" and "failed" events of the queue; StorageService keeps  *)
(* one raw record per job in "scrape_jobs".  A handler is taken as one     *)
(* step, from the event to the end of its try block.                       *)
(***************************************************************************)

\* largest number of queue events handled
MaxEvents == 2

JobIds == { "j1", "j2" }

\* job.data.url of the two jobs
JobUrl(jobId) == IF jobId = "j1" THEN FalabellaUrl ELSE UrbaniaUrl

\* faulty variant: the failure reason is not stored
withoutFailureReason(failureReason) == << >>

\* ...(failureReason && { failureReason })
withFailureReason(failureReason) ==
  IF Truthy(failureReason) THEN [failureReason |-> failureReason] ELSE << >>

\* the storedResult that saveResult builds at the time t
storedResult(fetched, state, failureReason, t) ==
  SetFields(SetFields(fetched,
                [storedAt |-> t, state |-> state, domain |-> extractDomain(fetched.url)]),
         withFailureReason(failureReason))

\* collection.updateOne({ jobId }, { $set: updates }, { upsert: true })
upsertByJobId(coll, jobId, updates) ==
  LET hits == { i \in 1..Len(coll) : coll[i].jobId = jobId }
  IN IF hits = {}
     THEN Append(coll, SetFields([jobId |-> jobId], updates))
     ELSE [coll EXCEPT ![Least(hits)] = SetFields(@, updates)]

\* StorageService.saveResult(fetched, state, failureReason) at the time t: the
\* collection afterwards, or the Error thrown without a collection handle
saveResult(coll, connected, fetched, state, failureReason, t) ==
  IF ~connected
  THEN Threw(<< "MongoDB not connected. Call connect() first." >>)
  ELSE Returned(upsertByJobId(coll, fetched.jobId,
                              storedResult(fetched, state, failureReason, t)))

\* RealEstateExtractorService.isRealEstateSite(url)
isRealEstateSite(url) ==
  \E domain \in { << "urbania", ".", "pe" >>, << "adondevivir", ".", "com" >>,
                  << "properati", ".", "com", ".", "pe" >>,
                  << "nexoinmobiliario", ".", "pe" >> } :
    Includes(url.s, domain)

\* QueueListenerService.isRealEstateDomain(url)
isRealEstateDomain(url) ==
  /\ hostname(url) # << >>
  /\ \E domain \in { << "urbania", ".", "pe" >>, << "urbania" >>,
                     << "adondevivir", ".", "com" >>, << "adondevivir" >>,
                     << "properati", ".", "com", ".", "pe" >>, << "properati" >>,
                     << "nexoinmobiliario", ".", "pe" >>, << "nexoinmobiliario" >> } :
       Includes(withoutWww(hostname(url)), domain)

\* QueueListenerService.prepareDataForExtraction(extractedData), for values
\* that are no strings
RECURSIVE prepareDataForExtraction(_, _)
prepareDataForExtraction(extractedData, possibleKeys) ==
  IF possibleKeys = << >> THEN extractedData
  ELSE IF /\ Truthy(Get(extractedData, Head(possibleKeys)))
          /\ TypeOf(Get(extractedData, Head(possibleKeys))) = "object"
       THEN Get(extractedData, Head(possibleKeys))
       ELSE prepareDataForExtraction(extractedData, Tail(possibleKeys))

\* the entity as the stores read it: its source.domain, its productId or
\* listingId, its price
asEntity(extractedEntity, idField) ==
  [ domain |-> extractedEntity.domain,
    id |-> ToStr(extractedEntity[idField]),
    name |-> IF "name" \in DOMAIN extractedEntity
             THEN extractedEntity.name ELSE extractedEntity.title,
    price |-> extractedEntity.price ]

\* upsertProducts(products) / upsertListings(listings) at the time t with no
\* other writer: the collection after the loop.  Without a collection handle
\* every single upsert throws and is counted
RECURSIVE bulkUpsert(_, _, _, _, _)
bulkUpsert(s, coll, connected, entities, t) ==
  IF entities = << >> \/ ~connected THEN coll
  ELSE LET e == Head(entities)
           key == generateUniqueKey(e.domain, e.id)
           ex == IF key \in DOMAIN coll THEN Some(coll[key]) ELSE Null
       IN bulkUpsert(s, ApplyWrite(coll, UpsertOp(s, ex, e, key, t)),
                     connected, Tail(entities), t)

\* the entities of an extraction that go to the store: none when the call
\* threw or extracted nothing
toUpsert(extraction, idField) ==
  IF extraction.threw THEN << >>
  ELSE [ i \in 1..Len(extraction.value.entities) |->
           asEntity(extraction.value.entities[i], idField) ]

\* the data extractAndSaveProducts hands to extractProducts; << >> when it
\* returns before: no extractedData, or none with keys
productData(fetched) ==
  IF ~Truthy(Get(JObj(fetched), "extractedData")) THEN << >>
  ELSE IF DOMAIN fetched.extractedData.o = {} THEN << >>
  ELSE << prepareDataForExtraction(fetched.extractedData,
            << "productData", "nextData", "data", "products" >>) >>

\* the data extractAndSaveRealEstate hands to extractListings:
\* result.html || result.extractedData; << >> when there is none
listingData(fetched) ==
  IF Truthy(fetched.html) THEN << fetched.html >>
  ELSE IF Truthy(Get(JObj(fetched), "extractedData")) THEN << fetched.extractedData >>
  ELSE << >>

\* the extractedData of the results a worker returns: none, product records
\* under a known key, listing records
ExtractedData ==
  { JUndefined,
    JObj([productData |-> JArr(<< FalabellaRecord >>)]),
    JObj([listings |-> JArr(<< UrbaniaRecord >>)]) }

\* the FetchResult a worker returns for job jobId at the time t
fetchResult(jobId, extractedData, t) ==
  IF extractedData = JUndefined
  THEN [jobId |-> jobId, url |-> JobUrl(jobId), html |-> JStr(<< >>), fetchedAt |-> t]
  ELSE [jobId |-> jobId, url |-> JobUrl(jobId), html |-> JStr(<< >>), fetchedAt |-> t,
        extractedData |-> extractedData]

\* the reasons a job fails with: the message of the error of the worker
FailedReasons == { << "timeout" >>, << "blocked" >> }

\* the state after the constructors of the three stores and of the listener
InitJobs ==
  /\ service = "products"
  /\ collection = FALSE
  /\ docs = << >>
  /\ clock = 0
  /\ pc = [c \in Callers |-> "idle"]
  /\ len = [c \in Callers |-> 0]
  /\ idx = [c \in Callers |-> 0]
  /\ item = [c \in Callers |-> Null]
  /\ outer = [c \in Callers |-> Null]
  /\ existing = [c \in Callers |-> Null]
  /\ now = [c \in Callers |-> 0]
  /\ op = [c \in Callers |-> NoOp]
  /\ stats = [c \in Callers |-> ZeroStats]
  /\ offered = 0
  /\ feed = << >>
  /\ tried = [c \in Callers |-> << >>]
  /\ failed = [c \in Callers |-> {}]
  /\ upserts = [k \in AllKeys |-> 0]
  /\ changes = [k \in AllKeys |-> 0]
  /\ raced = [k \in AllKeys |-> FALSE]
  /\ extractor = "listener"
  /\ strategies = << >>
  /\ request = << >>
  /\ result = << >>
  /\ NoCall
  /\ NoJobs

\* StorageService.connect()
connectJobs ==
  /\ ~jobsCollection
  /\ jobsCollection' = TRUE
  /\ UNCHANGED << jobs, listingsCollection, listings, queue, handled >>
  /\ UNCHANGED << storeVars, extractVars, callVars >>

\* RealEstateStorageService.connect()
connectListings ==
  /\ ~listingsCollection
  /\ listingsCollection' = TRUE
  /\ UNCHANGED << jobsCollection, jobs, listings, queue, handled >>
  /\ UNCHANGED << storeVars, extractVars, callVars >>

\* a producer adds job jobId to the queue
addJob(jobId) ==
  /\ jobId \notin DOMAIN queue
  /\ queue' = [ j \in (DOMAIN queue) \cup {jobId} |->
                  IF j = jobId THEN [url |-> JobUrl(jobId)] ELSE queue[j] ]
  /\ UNCHANGED << jobsCollection, jobs, listingsCollection, listings, handled >>
  /\ UNCHANGED << storeVars, extractVars, callVars >>

\* job.remove()
removeJob(jobId) == [ j \in (DOMAIN queue) \ {jobId} |-> queue[j] ]

\* extractAndSaveProducts(fetched): the extraction and the bulk upsert
extractAndSaveProducts(fetched) ==
  /\ IF productData(fetched) = << >>
     THEN /\ request' = << >>
          /\ result' = << >>
          /\ docs' = docs
     ELSE LET data == productData(fetched)[1]
              extraction == extractProductsResult(<< Falabella >>, data, fetched.url, clock)
          IN /\ request' = << [data |-> data, url |-> fetched.url] >>
             /\ result' = << extraction >>
             /\ docs' = bulkUpsert("products", docs, collection,
                                   toUpsert(extraction, "productId"), clock)
  /\ listings' = listings

\* extractAndSaveRealEstate(fetched): the extraction and the bulk upsert
extractAndSaveRealEstate(fetched) ==
  /\ IF listingData(fetched) = << >>
     THEN /\ request' = << >>
          /\ result' = << >>
          /\ listings' = listings
     ELSE LET data == listingData(fetched)[1]
              extraction == extractListingsResult(<< Urbania >>, data, fetched.url, clock)
          IN /\ request' = << [data |-> data, url |-> fetched.url] >>
             /\ result' = << extraction >>
             /\ listings' = bulkUpsert("listings", listings, listingsCollection,
                                       toUpsert(extraction, "listingId"), clock)
  /\ docs' = docs

\* the handler of "completed": the raw record is saved, the entities are
\* extracted and stored, the job is removed from the queue; a failed save
\* ends the handler
onCompleted(jobId, extractedData) ==
  /\ Len(handled) < MaxEvents
  /\ LET returnvalue == fetchResult(jobId, extractedData, clock)
         saved == saveResult(jobs, jobsCollection, returnvalue, "completed",
                             JUndefined, clock)
     IN IF saved.threw
        THEN /\ request' = << >>
             /\ result' = << >>
             /\ UNCHANGED << jobs, docs, listings, queue >>
        ELSE /\ jobs' = saved.value
             /\ IF isRealEstateSite(returnvalue.url) \/ isRealEstateDomain(returnvalue.url)
                THEN extractAndSaveRealEstate(returnvalue)
                ELSE extractAndSaveProducts(returnvalue)
             /\ queue' = removeJob(jobId)
  /\ handled' = Append(handled,
       [type |-> "completed", jobId |-> jobId, failedReason |-> JUndefined,
        saved |-> jobsCollection])
  /\ UNCHANGED << service, collection, clock, pc, len, idx, item, outer,
                  existing, now, op, stats, offered, feed, tried, failed,
                  upserts, changes, raced >>
  /\ UNCHANGED << extractor, strategies, jobsCollection, listingsCollection >>
  /\ UNCHANGED callVars

\* the handler of "failed": when the queue still holds the job, a minimal
\* result is saved as failed with the reason and the job is removed
onFailed(jobId, failedReason) ==
  /\ Len(handled) < MaxEvents
  /\ IF jobId \in DOMAIN queue
     THEN LET failedResult == [jobId |-> jobId, url |-> queue[jobId].url,
                               html |-> JStr(<< >>), fetchedAt |-> clock]
              saved == saveResult(jobs, jobsCollection, failedResult, "failed",
                                  failedReason, clock)
          IN IF saved.threw
             THEN UNCHANGED << jobs, queue >>
             ELSE /\ jobs' = saved.value
                  /\ queue' = removeJob(jobId)
     ELSE UNCHANGED << jobs, queue >>
  /\ request' = << >>
  /\ result' = << >>
  /\ handled' = Append(handled,
       [type |-> "failed", jobId |-> jobId, failedReason |-> failedReason,
        saved |-> (jobId \in DOMAIN queue /\ jobsCollection)])
  /\ UNCHANGED << storeVars, callVars >>
  /\ UNCHANGED << extractor, strategies, jobsCollection, listingsCollection, listings >>

NextJobs ==
  \/ Tick
  \/ connect
  \/ connectJobs
  \/ connectListings
  \/ \E jobId \in JobIds : addJob(jobId)
  \/ \E jobId \in JobIds, extractedData \in ExtractedData :
       onCompleted(jobId, extractedData)
  \/ \E jobId \in JobIds, failedReason \in FailedReasons :
       onFailed(jobId, JStr(failedReason))

SpecJobs == InitJobs /\ [][NextJobs]_vars

(***************************************************************************)
(* Properties.                                                             *)
(***************************************************************************)

\* caller c's single upsert has just written: its updateOne / insertOne was
\* applied by the store
Wrote(c) ==
  /\ pc[c] = "write"
  /\ pc'[c] # "write"
  /\ ~(op[c].kind = "insertOne" /\ op[c].key \in DOMAIN docs)

\* the keys of the two offered entities, written out
KeyX == << "x", ":", "y", "p" >>
KeyXY == << "x", "y", ":", "p" >>

\* C1: in the product store, for every key whose single upserts never
\* overlapped, the stored version equals the number of successful upserts of
\* that key so far: 1 after the first, one more after every later one, changed
\* fields or not; a key never upserted has no document.
C1_VersionCountsUpserts ==
  service = "products" =>
    \A k \in AllKeys :
      ~raced[k] =>
        IF k \in DOMAIN docs
        THEN upserts[k] >= 1 /\ docs[k].version = upserts[k]
        ELSE upserts[k] = 0

\* C1 reached: three successful upserts of one product, one after the other,
\* the last two with the price unchanged, and the version is 3
C1_Witness ==
  /\ service = "products"
  /\ \E k \in DOMAIN docs :
       /\ ~raced[k]
       /\ upserts[k] = 3
       /\ docs[k].version = 3
       /\ Len(docs[k].priceHistory) = 1

\* the incoming price of the single upsert SpecSeq is about to make differs
\* from the stored price in amount or in currency
IncomingPriceDiffers ==
  \/ FeedAt(offered + 1).amount # docs[SeqKey].price.amount
  \/ FeedAt(offered + 1).currency # docs[SeqKey].price.currency

\* the history entry the single upsert SpecSeq is about to make would append
IncomingEntry == [price |-> FeedAt(offered + 1), recordedAt |-> clock]

\* a single upsert of the already stored product of SpecSeq
UpsertOfStoredProduct ==
  /\ service = "products"
  /\ SeqKey \in DOMAIN docs
  /\ offered' = offered + 1

\* C2 (amended): a sequential upsert of a stored product appends one entry
\* with the incoming price and the time of the upsert exactly when the
\* incoming price differs from the stored one in amount or currency, and
\* otherwise leaves the history as it is; the append makes the history one
\* longer unless it already holds 100 entries, in which case the oldest entry
\* is dropped and the length stays 100.
C2_AppendsOnPriceChange ==
  [][ UpsertOfStoredProduct =>
        IF IncomingPriceDiffers
        THEN docs'[SeqKey].priceHistory =
               IF Len(docs[SeqKey].priceHistory) < 100
               THEN Append(docs[SeqKey].priceHistory, IncomingEntry)
               ELSE Append(Tail(docs[SeqKey].priceHistory), IncomingEntry)
        ELSE docs'[SeqKey].priceHistory = docs[SeqKey].priceHistory ]_vars

\* C2 as stated: the history grows by exactly one entry with the incoming
\* price if and only if the price differs, and is unchanged otherwise
C2_GrowsOnEveryPriceChange ==
  [][ UpsertOfStoredProduct =>
        /\ IncomingPriceDiffers <=>
             /\ Len(docs'[SeqKey].priceHistory) =
                  Len(docs[SeqKey].priceHistory) + 1
             /\ docs'[SeqKey].priceHistory[Len(docs'[SeqKey].priceHistory)].price
                  = FeedAt(offered + 1)
        /\ ~IncomingPriceDiffers =>
             docs'[SeqKey].priceHistory = docs[SeqKey].priceHistory ]_vars

\* C2 reached: 10 USD, then 12 USD for the same key
C2_Witness ==
  /\ service = "products"
  /\ offered = 2
  /\ SeqKey \in DOMAIN docs
  /\ docs[SeqKey].version = 2
  /\ docs[SeqKey].priceHistory =
       << [price |-> [amount |-> 10, currency |-> "USD"], recordedAt |-> 0],
          [price |-> [amount |-> 12, currency |-> "USD"], recordedAt |-> 1] >>

\* the single upserts of SpecSeq made so far that brought a price other than
\* the one before (the first brings the first price)
PriceChangesFed ==
  { i \in 1..offered : i = 1 \/ FeedAt(i) # FeedAt(i - 1) }

\* C3: a stored product's price history never has more than 100 entries, and
\* it holds the most recent price changes in the order they were upserted: its
\* length is the number of price changes so far, capped at 100, and the entry
\* that is r places before the end is the one of the price change that has r
\* later price changes after it.
C3_HistoryIsLastHundred ==
  (service = "products" /\ SeqKey \in DOMAIN docs) =>
    LET h == docs[SeqKey].priceHistory
    IN /\ Len(h) <= 100
       /\ Len(h) = IF Cardinality(PriceChangesFed) < 100
                   THEN Cardinality(PriceChangesFed)
                   ELSE 100
       /\ \A i \in PriceChangesFed :
            LET later == Cardinality({ j \in PriceChangesFed : j > i })
            IN later < 100 =>
                 h[Len(h) - later] = [price |-> FeedAt(i), recordedAt |-> i - 1]

\* C3 reached: 150 upserts, each at a price other than the one before; the
\* history has 100 entries, from the 51st price to the 150th
C3_Witness ==
  /\ service = "products"
  /\ offered = 150
  /\ Cardinality(PriceChangesFed) = 150
  /\ Len(docs[SeqKey].priceHistory) = 100
  /\ docs[SeqKey].priceHistory[1].price = FeedAt(51)
  /\ docs[SeqKey].priceHistory[100].price = FeedAt(150)

\* C4: when upsertProduct has found no document of the key and its insertOne
\* is applied, the collection has exactly one document more, the one of that
\* key, with version 1, the three timestamps equal to the time of the upsert
\* and a history of the one entry that carries the product's price; when the
\* key has been inserted in between, the insertOne changes nothing.
C4_InsertCreatesVersionOne ==
  [][ \A c \in Callers :
        ( /\ service = "products"
          /\ pc[c] = "write"
          /\ pc'[c] # "write"
          /\ IsNull(existing[c]) ) =>
          LET k == Val(item[c]).domain \o <<":">> \o Val(item[c]).id
          IN IF k \in DOMAIN docs
             THEN docs' = docs
             ELSE /\ DOMAIN docs' = (DOMAIN docs) \cup {k}
                  /\ \A j \in DOMAIN docs : docs'[j] = docs[j]
                  /\ docs'[k].version = 1
                  /\ docs'[k].firstSeenAt = now[c]
                  /\ docs'[k].lastSeenAt = now[c]
                  /\ docs'[k].lastUpdatedAt = now[c]
                  /\ docs'[k].priceHistory =
                       << [price |-> Val(item[c]).price, recordedAt |-> now[c]] >>
                  /\ docs'[k].price = Val(item[c]).price ]_vars

\* C4 reached: a product inserted at time 1 and not upserted since
C4_Witness ==
  /\ service = "products"
  /\ \E k \in DOMAIN docs :
       /\ upserts[k] = 1
       /\ docs[k].version = 1
       /\ docs[k].firstSeenAt = 1
       /\ docs[k].lastSeenAt = 1
       /\ docs[k].lastUpdatedAt = 1
       /\ docs[k].priceHistory = << [price |-> docs[k].price, recordedAt |-> 1] >>

\* C5: in both stores no step removes a stored document or changes its
\* firstSeenAt, so it stays the value written by the insert.
C5_FirstSeenAtFrozen ==
  [][ \A k \in DOMAIN docs :
        /\ k \in DOMAIN docs'
        /\ docs'[k].firstSeenAt = docs[k].firstSeenAt ]_vars

\* C5 reached: a listing inserted at time 0 and upserted again at time 1
\* with another amount
C5_Witness ==
  /\ service = "listings"
  /\ \E k \in DOMAIN docs :
       /\ upserts[k] >= 2
       /\ docs[k].firstSeenAt = 0
       /\ docs[k].lastSeenAt = 1
       /\ Len(docs[k].priceHistory) = 1

\* C6: in both stores every applied write of a single upsert leaves the
\* document with lastSeenAt and lastUpdatedAt equal to the Date that upsert
\* took, whatever the incoming entity is, and not earlier than firstSeenAt.
C6_WriteStampsLastSeen ==
  [][ \A c \in Callers :
        Wrote(c) =>
          /\ op[c].key \in DOMAIN docs'
          /\ docs'[op[c].key].lastSeenAt = now[c]
          /\ docs'[op[c].key].lastUpdatedAt = now[c]
          /\ docs'[op[c].key].lastSeenAt = docs'[op[c].key].lastUpdatedAt
          /\ docs'[op[c].key].lastSeenAt >= docs'[op[c].key].firstSeenAt ]_vars

\* C6 reached: a product inserted at time 0 and upserted again, unchanged, at
\* time 1
C6_Witness ==
  /\ service = "products"
  /\ \E k \in DOMAIN docs :
       /\ docs[k].version = 2
       /\ Len(docs[k].priceHistory) = 1
       /\ docs[k].firstSeenAt = 0
       /\ docs[k].lastSeenAt = 1
       /\ docs[k].lastUpdatedAt = 1

\* different (domain, id) pairs have different keys
KeysInjective ==
  \A d1 \in Domains, d2 \in Domains, i1 \in EntityIds, i2 \in EntityIds :
    generateUniqueKey(d1, i1) = generateUniqueKey(d2, i2) => (d1 = d2 /\ i1 = i2)

\* every document is stored under its uniqueKey, which is its domain, a ":"
\* and its id
StoredKeysMatch ==
  \A k \in DOMAIN docs :
    /\ docs[k].uniqueKey = k
    /\ k = docs[k].domain \o <<":">> \o docs[k].id

\* C7: the key is domain, ":" , id; different (domain, id) pairs have
\* different keys; every document is stored under the key of its own domain
\* and id; a single upsert changes no document of another (domain, id); and no
\* step changes the uniqueKey of a stored document.
C7_KeyAddressesOneEntity ==
  /\ [](KeysInjective /\ StoredKeysMatch)
  /\ [][ /\ \A k \in DOMAIN docs :
              k \in DOMAIN docs' /\ docs'[k].uniqueKey = docs[k].uniqueKey
         /\ \A c \in Callers :
              Wrote(c) =>
                \A k \in DOMAIN docs :
                  ( docs[k].domain # Val(item[c]).domain
                      \/ docs[k].id # Val(item[c]).id ) =>
                    docs'[k] = docs[k] ]_vars

\* C7 reached: the products ("x", "yp") and ("xy", "p") are both stored, the
\* first upserted twice and the second once
C7_Witness ==
  /\ service = "products"
  /\ KeyX \in DOMAIN docs
  /\ KeyXY \in DOMAIN docs
  /\ docs[KeyX].version = 2
  /\ docs[KeyXY].version = 1
  /\ docs[KeyX].id = << "y", "p" >>
  /\ docs[KeyXY].id = << "p" >>

\* C8: the updateOne of upsertProduct stores what was computed from the
\* upsert's own read, whatever is stored at the time of the write: the version
\* is the read version plus one and the history is the read history, with the
\* upsert's own entry when its price differs from the read price.  So of two
\* upserts that read the same record the second write undoes the first.
C8_WriteIsComputedFromRead ==
  [][ \A c \in Callers :
        ( /\ service = "products"
          /\ Wrote(c)
          /\ ~IsNull(existing[c]) ) =>
          /\ docs'[op[c].key].version = Val(existing[c]).version + 1
          /\ docs'[op[c].key].priceHistory =
               IF Val(item[c]).price.amount # Val(existing[c]).price.amount
                    \/ Val(item[c]).price.currency # Val(existing[c]).price.currency
               THEN IF Len(Val(existing[c]).priceHistory) < 100
                    THEN Append(Val(existing[c]).priceHistory,
                                [price |-> Val(item[c]).price, recordedAt |-> now[c]])
                    ELSE Append(Tail(Val(existing[c]).priceHistory),
                                [price |-> Val(item[c]).price, recordedAt |-> now[c]])
               ELSE Val(existing[c]).priceHistory ]_vars

\* C8 reached: a product was inserted and then upserted by two callers that
\* both read version 1; all three upserts succeeded and each stored a price
\* other than the one stored before it, yet the version is 2 and the history
\* has two entries
C8_Witness ==
  /\ service = "products"
  /\ \E k \in DOMAIN docs :
       /\ raced[k]
       /\ upserts[k] = 3
       /\ changes[k] = 3
       /\ docs[k].version = 2
       /\ Len(docs[k].priceHistory) = 2

\* C9: in both stores the bulk upsert never ends by raising; every item whose
\* single upsert threw is counted once in errors; and when the bulk upsert
\* has returned, the single upsert was entered for every item of the batch,
\* in input order, and every item that did not throw was counted as inserted
\* or as updated.
C9_ItemFailuresIsolated ==
  \A c \in Callers :
    /\ pc[c] \in {"idle", "loop", "find", "compute", "write", "classify", "done"}
    /\ stats[c].errors = Cardinality(failed[c])
    /\ \A f \in failed[c], g \in failed[c] : f.index = g.index => f = g
    /\ pc[c] = "done" =>
         /\ Len(tried[c]) = len[c]
         /\ \A i \in 1..len[c] : tried[c][i] = i
         /\ stats[c].inserted + stats[c].updated = len[c] - Cardinality(failed[c])

\* C9 reached: a connected bulk upsert of two entities has returned; the
\* insert of the first was rejected by the unique index, the second was
\* upserted
C9_Witness ==
  \E c \in Callers :
    /\ pc[c] = "done"
    /\ len[c] = 2
    /\ failed[c] = {[index |-> 1, error |-> "duplicate key"]}
    /\ stats[c].errors = 1
    /\ stats[c].inserted + stats[c].updated = 1

\* C10 as stated: a bulk upsert whose single upserts found the store not
\* connected does not return its counters
C10_UnavailableStorePropagates ==
  \A c \in Callers :
    pc[c] = "done" => \A f \in failed[c] : f.error # "not connected"

\* the single upsert of the item caller c is working on found a document of
\* its key: with no other writer, the key was stored just before the upsert
FoundStored(c) == ~IsNull(existing[c])

\* C11, product store: with no other writer, an applied single upsert is
\* counted as updated when its key was stored just before it ran and as
\* inserted when it was not
C11_ProductsCountByPriorExistence ==
  [][ \A c \in Callers :
        (service = "products" /\ Wrote(c)) =>
          stats'[c] =
            [stats[c] EXCEPT ![IF FoundStored(c) THEN "updated" ELSE "inserted"] = @ + 1]
    ]_vars

\* C11 as stated: in both stores, with no concurrent writer, every upserted
\* entity is counted as updated if and only if a document of its key was
\* stored immediately before its own single upsert, and as inserted otherwise
C11_CountsByPriorExistence ==
  [][ \A c \in Callers :
        ( \/ service = "products" /\ Wrote(c)
          \/ service = "listings" /\ pc[c] = "classify" /\ pc'[c] # "classify" ) =>
          stats'[c] =
            [stats[c] EXCEPT ![IF FoundStored(c) THEN "updated" ELSE "inserted"] = @ + 1]
    ]_vars

\* C12 as stated: after any sequence of upserts the stored listing is what
\* the product store would hold: a history seeded with the first price, one
\* entry carrying the incoming price for every later change of amount or
\* currency, the most recent 100 of them, and a version that counts the
\* upserts
C12_ListingStoreLikeProductStore ==
  (service = "listings" /\ SeqKey \in DOMAIN docs) =>
    /\ Len(docs[SeqKey].priceHistory) =
         IF Cardinality(PriceChangesFed) < 100
         THEN Cardinality(PriceChangesFed)
         ELSE 100
    /\ "version" \in DOMAIN docs[SeqKey]
    /\ docs[SeqKey].version = offered
    /\ \A i \in PriceChangesFed :
         LET later == Cardinality({ j \in PriceChangesFed : j > i })
         IN later < 100 =>
              docs[SeqKey].priceHistory[Len(docs[SeqKey].priceHistory) - later]
                = [price |-> FeedAt(i), recordedAt |-> i - 1]

\* the call that was made
Called == request[1]
\* what the call came to
Outcome == result[1]

\* what the selection of the strategy came to in the call that was made
Selected ==
  IF extractor = "products"
  THEN findStrategy(strategies, Called.data, Called.url)
  ELSE findListingStrategy(strategies, Called.data, Called.url)

\* what the try block of the call came to: what was thrown by the selection
\* or by the selected strategy, or the entities of the strategy
Ran ==
  IF Selected.threw THEN Selected
  ELSE IF Selected.value = JNull THEN Returned(<< >>)
  ELSE extract(Selected.value, Called.data, Called.url, clock)

\* the text of what was thrown: the message of an Error, the thrown string
TextThrown(thrown) == IF thrown.error THEN thrown.message ELSE ToStr(thrown.value)

\* C13 (as stated): extractProducts and extractListings never raise, and when
\* the selection of the strategy or the strategy throws, the result has no
\* entities, totalExtracted 0 and an errors entry that contains the text of
\* what was thrown.
C13_ErrorsCarryWhatWasThrown ==
  request # << >> =>
    /\ ~Outcome.threw
    /\ Ran.threw =>
         /\ Outcome.value.entities = << >>
         /\ Outcome.value.metadata.totalExtracted = 0
         /\ "errors" \in DOMAIN Outcome.value.metadata
         /\ \E i \in 1..Len(Outcome.value.metadata.errors) :
              Includes(Outcome.value.metadata.errors[i], TextThrown(Ran))

\* C13 (amended): extractProducts and extractListings never raise, and when
\* the selection of the strategy or the strategy throws, the result has no
\* entities, totalExtracted 0 and one errors entry: "Extraction error: "
\* followed by the message when an Error was thrown, and by "Unknown error"
\* when anything else was thrown.
C13_NeverRaisesAndReports ==
  request # << >> =>
    /\ ~Outcome.threw
    /\ Ran.threw =>
         /\ Outcome.value.entities = << >>
         /\ Outcome.value.metadata.totalExtracted = 0
         /\ "errors" \in DOMAIN Outcome.value.metadata
         /\ Outcome.value.metadata.errors =
              << << "Extraction error: " >>
                   \o (IF Ran.error THEN Ran.message ELSE << "Unknown error" >>) >>

\* a call in which the code of the repository itself threw an Error
C13_Witness ==
  /\ request # << >>
  /\ Ran.threw
  /\ Ran.error
  /\ Len(strategies) = 1
  /\ ~Outcome.threw
  /\ Outcome.value.metadata.totalExtracted = 0

\* the registered strategies whose canHandle returns true for the call made
Claimers ==
  { i \in 1..Len(strategies) :
      /\ ~canHandle(strategies[i], Called.data, Called.url).threw
      /\ canHandle(strategies[i], Called.data, Called.url).value }

\* a strategy ran in the call made and the result names it
StrategyReported ==
  /\ request # << >>
  /\ ~Outcome.threw
  /\ "strategyUsed" \in DOMAIN Outcome.value.metadata

\* C14: selection follows registration order: the strategy that ran and is
\* named in strategyUsed is the earliest registered strategy whose canHandle
\* is true; the generic fallback is named only when no registered strategy
\* claims the payload.
C14_SelectionFollowsRegistration ==
  StrategyReported =>
    IF Claimers = {}
    THEN extractor = "products" /\ Outcome.value.metadata.strategyUsed = "Generic"
    ELSE /\ Outcome.value.metadata.strategyUsed = strategies[Least(Claimers)].name
         /\ Outcome.value.metadata.strategyUsed # "Generic"

\* a payload that the Falabella strategy, a strategy registered after it and
\* the generic fallback all take, reported under the name Falabella
C14_Witness ==
  /\ StrategyReported
  /\ Claimers = { 1, 2 }
  /\ GenericExtract(Called.data, Called.url) # << >>
  /\ Outcome.value.entities # << >>
  /\ Outcome.value.metadata.strategyUsed = "Falabella"

\* every registered strategy was asked in the call made and none claimed it
NoneClaims ==
  /\ request # << >>
  /\ \A i \in 1..Len(strategies) :
       /\ ~canHandle(strategies[i], Called.data, Called.url).threw
       /\ ~canHandle(strategies[i], Called.data, Called.url).value

\* C15: when no registered strategy claims the payload, the orchestrator,
\* for commerce and for real estate alike, runs the unconditional fallback
\* and returns a normal result: strategyUsed is the name of the fallback and
\* the metadata has no errors entry.
C15_FallbackWhenUnclaimed ==
  NoneClaims =>
    /\ ~Outcome.threw
    /\ "strategyUsed" \in DOMAIN Outcome.value.metadata
    /\ Outcome.value.metadata.strategyUsed = Generic.name
    /\ "errors" \notin DOMAIN Outcome.value.metadata

\* the same for the orchestrator of commerce only
C15_ProductsFallBack ==
  (NoneClaims /\ extractor = "products") =>
    /\ ~Outcome.threw
    /\ "strategyUsed" \in DOMAIN Outcome.value.metadata
    /\ Outcome.value.metadata.strategyUsed = Generic.name
    /\ "errors" \notin DOMAIN Outcome.value.metadata

\* the raw records that are well formed for the strategy of that name: the
\* records of its own shape (and for the generic strategy those with an id, a
\* name and a price that is a string or a number)
WellFormedFor(name) ==
  CASE name = "Falabella" -> { FalabellaRecord }
    [] name = "Generic" -> { FalabellaRecord, GenericRecord }
    [] name = "Urbania" -> { UrbaniaRecord }
    [] OTHER -> {}

\* the call made gave the strategy of that name a list with exactly one
\* malformed record, all others being well formed
OneMalformedFor(name) ==
  /\ StrategyReported
  /\ Outcome.value.metadata.strategyUsed = name
  /\ Called.data.t = "array"
  /\ Cardinality({ i \in 1..Len(Called.data.a) : Called.data.a[i] \in Malformed }) = 1
  /\ \A i \in 1..Len(Called.data.a) :
       Called.data.a[i] \in Malformed \cup WellFormedFor(name)

\* the number of well-formed records of the list of the call made
WellFormedCount(name) ==
  Cardinality({ i \in 1..Len(Called.data.a) : Called.data.a[i] \in WellFormedFor(name) })

\* C16: a malformed raw record does not abort the batch: for every strategy
\* and every list with exactly one malformed record (fields missing, or not
\* an object) and k well-formed records, extract returns exactly k entities.
C16_MalformedRecordSkipped ==
  \A name \in { "Falabella", "Generic", "Urbania" } :
    OneMalformedFor(name) => Len(Outcome.value.entities) = WellFormedCount(name)

\* the same for the generic strategy only
C16_GenericSkipsMalformed ==
  OneMalformedFor("Generic") => Len(Outcome.value.entities) = WellFormedCount("Generic")

\* the url handed to the domain functions
UrlArg == arg[1]

\* the url has one of the three forms of the claim, for the label site
HasSiteForm(url, site) ==
  \/ url = UrlOf(<< "www", site, "com", "pe" >>)
  \/ url = UrlOf(<< site, "com" >>)
  \/ \E sub \in Labels : url = UrlOf(<< sub, site, "com" >>)

\* C17: the domain canonicalizer returns <site> for every
\* https://www.<site>.com.pe/..., https://<sub>.<site>.com/... and
\* https://<site>.com/..., for all single labels <site> and <sub>, and
\* "unknown" for a string that is no URL; for StorageService and for the
\* strategies.
C17_CanonicalSite ==
  /\ \A site \in Labels :
       HasSiteForm(UrlArg, site) =>
         /\ ret.store # << >> => ret.store[1] = << site >>
         /\ ret.strategy # << >> => ret.strategy[1] = << site >>
  /\ UrlArg \in Unparseable =>
       /\ ret.store # << >> => ret.store[1] = << "unknown" >>
       /\ ret.strategy # << >> => ret.strategy[1] = << "unknown" >>

\* the part of C17 about strings that are no URL
C17_UnknownWhenUnparseable ==
  UrlArg \in Unparseable =>
    /\ ret.store # << >> => ret.store[1] = << "unknown" >>
    /\ ret.strategy # << >> => ret.strategy[1] = << "unknown" >>

\* C18: the places that compute a domain agree on every URL: the domain in
\* the source of an entity is the domain StorageService computes for the raw
\* job record of the same url.
C18_CallSitesAgree ==
  /\ (ret.store # << >> /\ ret.strategy # << >>) => ret.strategy = ret.store
  /\ (ret.store # << >> /\ ret.listing # << >>) => ret.listing = ret.store

\* the raw record handed to the price functions
Priced == arg[1]

\* the record holds its price in the field price, which every strategy
\* reads, and not in a list of prices, which only FalabellaStrategy reads
HasPriceField == "price" \in DOMAIN Priced.o

\* the raw price value of the record
RawPrice ==
  IF HasPriceField THEN Get(Priced, "price")
  ELSE Get(Get(Priced, "prices").a[1], "price")

\* the digits and points that remain of the raw price, parsed as a number,
\* and 0 when nothing of it can be parsed
RemainderParsed(raw) ==
  IF raw.t = "number" THEN raw
  ELSE FloatOrZero(parseFloat(DigitsAndPoints(ToStr(raw))))

\* the price reading came to the amount that the remainder of the raw price
\* gives
ParsedAsRemainder(call) ==
  /\ ~call.threw
  /\ call.value.amount.t = "number"
  /\ call.value.amount = RemainderParsed(RawPrice)

\* C19: price parsing never raises: for every raw price value (string,
\* number, array, object, boolean, null) the amount is a number, equal to the
\* digits and decimal points that remain of the value parsed as a number,
\* and 0 when nothing can be parsed.
C19_PriceParsingTotal ==
  /\ ret.falabella # << >> => ParsedAsRemainder(ret.falabella[1])
  /\ (ret.generic # << >> /\ HasPriceField) => ParsedAsRemainder(ret.generic[1])

\* the part of C19 about raw prices that are strings, numbers or null, for
\* the generic strategy
C19_StringsAndNumbersParse ==
  (ret.generic # << >> /\ HasPriceField /\ RawPrice.t \in { "string", "number", "null" }) =>
    ParsedAsRemainder(ret.generic[1])

\* the strings of the record that hold a price or a price symbol
PriceTexts ==
  { x.s : x \in { y \in { Get(Priced, "price"), Get(Priced, "priceSymbol"),
                         OptFirst(Get(Priced, "prices")),
                         Opt(OptFirst(Get(Priced, "prices")), "price"),
                         Opt(OptFirst(Get(Priced, "prices")), "symbol") } :
                    y.t = "string" } }

\* the codes of the currency symbols that occur in those strings
CodesLookedUp ==
  { currencyMap[i].code : i \in { j \in 1..Len(currencyMap) :
      \E text \in PriceTexts : Includes(text, currencyMap[j].symbol) } }

\* the price reading chose the currency in the order of the claim
CurrencyByPrecedence(call) ==
  ~call.threw =>
    IF Get(Priced, "currency").t = "string" /\ Truthy(Get(Priced, "currency"))
    THEN call.value.currency = Get(Priced, "currency")
    ELSE IF CodesLookedUp # {}
    THEN call.value.currency \in { JStr(code) : code \in CodesLookedUp }
    ELSE call.value.currency \in { JStr(<< "USD" >>), JStr(<< "PEN" >>) }

\* C20: in every strategy the currency of a price is chosen in this order:
\* the explicit currency code of the record; else the code that the symbol
\* table gives for the price-like string; else the fixed default.
C20_CurrencyChosenInOrder ==
  /\ ret.falabella # << >> => CurrencyByPrecedence(ret.falabella[1])
  /\ (ret.generic # << >> /\ HasPriceField) => CurrencyByPrecedence(ret.generic[1])
  /\ (ret.urbania # << >> /\ HasPriceField) => CurrencyByPrecedence(ret.urbania[1])

\* the raw records of job jobId in a collection of "scrape_jobs"
RecordsOf(coll, jobId) == { i \in 1..Len(coll) : coll[i].jobId = jobId }

\* the step is the handler of a "failed" event of job jobId with the reason
FailedHandled(jobId, reason) ==
  /\ Len(handled') = Len(handled) + 1
  /\ handled'[Len(handled')].type = "failed"
  /\ handled'[Len(handled')].jobId = jobId
  /\ handled'[Len(handled')].failedReason = JStr(reason)

SavesOf(jobId) ==
  { i \in 1..Len(handled) : handled[i].jobId = jobId /\ handled[i].saved }

\* the state passed to the most recent save of job jobId
LatestSavedState(jobId) ==
  handled[CHOOSE i \in SavesOf(jobId) : \A j \in SavesOf(jobId) : j <= i].type

\* C29 as stated: after any sequence of saves there is at most one raw record
\* per jobId, its state is the state passed to the most recent save of that
\* job, and a record whose state is "completed" carries no failureReason
C29_OneRecordLatestStateNoStaleReason ==
  \A jobId \in JobIds :
    /\ Cardinality(RecordsOf(jobs, jobId)) <= 1
    /\ \A i \in RecordsOf(jobs, jobId) :
         /\ SavesOf(jobId) # {}
         /\ jobs[i].state = LatestSavedState(jobId)
         /\ jobs[i].state = "completed" => "failureReason" \notin DOMAIN jobs[i]

\* C29, the part that holds: at most one raw record per jobId, with the state
\* passed to the most recent save of that job
C29_OneRecordLatestState ==
  \A jobId \in JobIds :
    /\ Cardinality(RecordsOf(jobs, jobId)) <= 1
    /\ \A i \in RecordsOf(jobs, jobId) :
         /\ SavesOf(jobId) # {}
         /\ jobs[i].state = LatestSavedState(jobId)

\* C22 as stated: the entries of a stored product's price history are in
\* strictly increasing recordedAt order
C22_RecordedAtStrictlyIncreasing ==
  service = "products" =>
    \A k \in DOMAIN docs :
      \A i \in 1..(Len(docs[k].priceHistory) - 1) :
        docs[k].priceHistory[i].recordedAt < docs[k].priceHistory[i + 1].recordedAt

\* C22 (amended): the entries of a stored product's price history are in
\* non-decreasing recordedAt order, whatever the interleaving of the upserts:
\* an appended entry carries the Date its upsert took, which is not earlier
\* than the recordedAt of any entry that upsert read
C22_RecordedAtNeverDecreases ==
  service = "products" =>
    \A k \in DOMAIN docs :
      \A i \in 1..(Len(docs[k].priceHistory) - 1) :
        docs[k].priceHistory[i].recordedAt <= docs[k].priceHistory[i + 1].recordedAt

\* C22 reached: a product inserted at time 0 and upserted with another price
\* at time 1 has the entries of times 0 and 1, in that order
C22_Witness ==
  /\ service = "products"
  /\ \E k \in DOMAIN docs :
       /\ Len(docs[k].priceHistory) = 2
       /\ docs[k].priceHistory[1].recordedAt = 0
       /\ docs[k].priceHistory[2].recordedAt = 1
       /\ docs[k].priceHistory[2].price = docs[k].price
       /\ docs[k].priceHistory[1].price # docs[k].price

\* the fields the stores add to an entity
StorageFields ==
  { "uniqueKey", "firstSeenAt", "lastSeenAt", "lastUpdatedAt", "version",
    "priceHistory" }

\* the canonical part of a stored document: the document without the
\* fields the store added
Canonical(d) == [ f \in (DOMAIN d) \ StorageFields |-> d[f] ]

\* the step is a single upsert of entity e onto a stored document
UpdatedWith(e) ==
  /\ generateUniqueKey(e.domain, e.id) \in DOMAIN docs
  /\ upsertEntity(e)

\* C23 as stated: after an upsert of entity e onto an existing record the
\* canonical part of the stored record equals e exactly: a field e omits is
\* absent from the stored record
C23_UpdateStoresEntityExactly ==
  [][ \A e \in RatedEntities :
        UpdatedWith(e) =>
          Canonical(docs'[generateUniqueKey(e.domain, e.id)]) = e ]_vars

\* C23, the part that holds: after an upsert of entity e onto an existing
\* record every field that e carries is stored with the value e has
C23_IncomingFieldsOverwritten ==
  [][ \A e \in RatedEntities :
        UpdatedWith(e) =>
          \A f \in DOMAIN e :
            /\ f \in DOMAIN docs'[generateUniqueKey(e.domain, e.id)]
            /\ docs'[generateUniqueKey(e.domain, e.id)][f] = e[f] ]_vars

\* inserted + updated + errors of caller c
Counted(c) == stats[c].inserted + stats[c].updated + stats[c].errors

\* C24: in both stores the counters of a bulk upsert add up to the number of
\* entities of the batch when it returns, whatever mix of inserts, updates
\* and failures there was; while the loop runs they add up to the number of
\* entities it has finished, and every change of the counters after the call
\* began adds one to exactly one of the three.
C24_CountersAddUpToBatch ==
  /\ [](\A c \in Callers :
          /\ pc[c] = "done" => Counted(c) = len[c]
          /\ pc[c] \in {"loop", "find", "compute", "write", "classify"} =>
               Counted(c) = idx[c] - 1)
  /\ [][ \A c \in Callers :
           (pc[c] # "idle" /\ stats'[c] # stats[c]) =>
             \E f \in {"inserted", "updated", "errors"} :
               stats'[c] = [stats[c] EXCEPT ![f] = @ + 1] ]_vars

\* C24 reached: a bulk upsert of three entities has returned with one
\* insert, one update and one failure
C24_Witness ==
  \E c \in Callers :
    /\ pc[c] = "done"
    /\ len[c] = 3
    /\ stats[c] = [inserted |-> 1, updated |-> 1, errors |-> 1]

\* C25: in every reachable state of the product store, after any
\* interleaving of concurrent upserts of the same key, a stored product's
\* price history is not empty, its last entry carries the stored current
\* price (amount and currency), and no two consecutive entries carry the
\* same amount and currency.
C25_HistoryMatchesPrice ==
  service = "products" =>
    \A k \in DOMAIN docs :
      LET h == docs[k].priceHistory
      IN /\ Len(h) >= 1
         /\ h[Len(h)].price.amount = docs[k].price.amount
         /\ h[Len(h)].price.currency = docs[k].price.currency
         /\ \A i \in 1..(Len(h) - 1) :
              \/ h[i].price.amount # h[i + 1].price.amount
              \/ h[i].price.currency # h[i + 1].price.currency

\* C25 reached: two upserts of a stored product overlapped, both read the
\* same record and each wrote another price; the second write replaced the
\* history of the first, and the last entry is the stored price
C25_Witness ==
  /\ service = "products"
  /\ \E k \in DOMAIN docs :
       /\ raced[k]
       /\ upserts[k] = 3
       /\ changes[k] = 3
       /\ \A c \in Callers : pc[c] = "done"
       /\ Len(docs[k].priceHistory) = 2
       /\ docs[k].priceHistory[2].price = docs[k].price
       /\ docs[k].priceHistory[1].price # docs[k].price

\* C26 as stated: across every interleaving of concurrent upserts of the same
\* key the stored version never decreases from one state to the next
C26_VersionNeverDecreases ==
  [][ service = "products" =>
        \A k \in DOMAIN docs :
          k \in DOMAIN docs' /\ docs'[k].version >= docs[k].version ]_vars

\* C26, what holds: the write of a single upsert that overlapped no other
\* upsert of its key raises the stored version by one
C26_VersionGrowsWithoutOverlap ==
  [][ \A c \in Callers :
        ( /\ service = "products"
          /\ Wrote(c)
          /\ op[c].key \in DOMAIN docs
          /\ ~raced'[op[c].key] ) =>
          docs'[op[c].key].version = docs[op[c].key].version + 1 ]_vars

\* caller c's single upsert took the insert branch and its insertOne now
\* reaches the store
InsertArrives(c) ==
  /\ service = "products"
  /\ pc[c] = "write"
  /\ pc'[c] # "write"
  /\ op[c].kind = "insertOne"

\* C27: of two concurrent first upserts of the same absent key both take
\* the insert branch; the insertOne that arrives first stores the one record
\* of the key, with version 1 and a one-entry price history; the insertOne
\* that arrives when the key is stored is rejected by the unique index: it
\* changes no document (it is not applied as an update) and its item is
\* counted in errors, not in inserted or updated.
C27_LosingInsertIsAnError ==
  [][ \A c \in Callers :
        InsertArrives(c) =>
          IF op[c].key \in DOMAIN docs
          THEN /\ docs' = docs
               /\ stats'[c] = [stats[c] EXCEPT !.errors = @ + 1]
               /\ failed'[c] =
                    failed[c] \cup {[index |-> idx[c], error |-> "duplicate key"]}
          ELSE /\ DOMAIN docs' = (DOMAIN docs) \cup {op[c].key}
               /\ docs'[op[c].key].version = 1
               /\ Len(docs'[op[c].key].priceHistory) = 1
               /\ stats'[c].errors = stats[c].errors ]_vars

\* C27 reached: both callers upserted the same absent key at the same time
\* and have returned; one counted an insert, the other an error, and the
\* key has one record, with version 1 and one history entry
C27_Witness ==
  /\ service = "products"
  /\ \E k \in DOMAIN docs, c \in Callers, d \in Callers :
       /\ c # d
       /\ raced[k]
       /\ upserts[k] = 1
       /\ pc[c] = "done" /\ pc[d] = "done"
       /\ len[c] = 1 /\ len[d] = 1
       /\ stats[c] = [inserted |-> 1, updated |-> 0, errors |-> 0]
       /\ stats[d] = [inserted |-> 0, updated |-> 0, errors |-> 1]
       /\ failed[d] = {[index |-> 1, error |-> "duplicate key"]}
       /\ docs[k].version = 1
       /\ Len(docs[k].priceHistory) = 1

\* the earliest registered strategy that claims the call made returned, and
\* returned no entity
SelectedCameBackEmpty ==
  /\ request # << >>
  /\ Claimers # {}
  /\ \A j \in 1..Least(Claimers) : ~canHandle(strategies[j], Called.data, Called.url).threw
  /\ extract(strategies[Least(Claimers)], Called.data, Called.url, clock) = Returned(<< >>)

\* C28: one strategy runs per extract call and no other is tried after it:
\* when the selected registered strategy returns zero entities, the result
\* has zero entities, no error, and strategyUsed names the selected strategy,
\* also where the generic fallback would have found entities.
C28_NoRetryAfterEmptyResult ==
  SelectedCameBackEmpty =>
    /\ ~Outcome.threw
    /\ Outcome.value.entities = << >>
    /\ Outcome.value.metadata =
         [totalExtracted |-> 0, strategyUsed |-> strategies[Least(Claimers)].name]

\* a falabella.com URL with a payload that only the generic rules take: the
\* Falabella strategy ran, found nothing, and is the strategy named
C28_Witness ==
  /\ SelectedCameBackEmpty
  /\ extractor = "products"
  /\ Called.url = FalabellaUrl
  /\ strategies[Least(Claimers)] = Falabella
  /\ GenericExtract(Called.data, Called.url) # << >>
  /\ Outcome = Returned([entities |-> << >>,
                         metadata |-> [totalExtracted |-> 0, strategyUsed |-> "Falabella"]])


\* the string looked up is the symbol of table entry i followed by digits
SymbolThenDigits(i) ==
  \E digits \in DigitStrings : arg[1] = currencyMap[i].symbol \o digits

\* the string looked up contains no symbol of the table
ContainsNoSymbol ==
  \A i \in 1..Len(currencyMap) : ~Includes(arg[1], currencyMap[i].symbol)

\* C30: every entry of the currency symbol table is reachable: a string that
\* is a symbol of the table followed by digits looks up to that symbol's own
\* code, and a string that contains no symbol of the table gives USD.
C30_EverySymbolGivesItsOwnCode ==
  ret # << >> =>
    /\ \A i \in 1..Len(currencyMap) : SymbolThenDigits(i) => ret[1] = currencyMap[i].code
    /\ ContainsNoSymbol => ret[1] = << "USD" >>

\* what the lookup does: every symbol but R$ gives its own code, R$ gives
\* the code of $, no string gives BRL, and a string without a symbol gives
\* USD
C30_EverySymbolButRealGivesItsOwnCode ==
  ret # << >> =>
    /\ \A i \in 1..Len(currencyMap) :
         SymbolThenDigits(i) =>
           ret[1] = IF currencyMap[i].symbol = << "R", "$" >> THEN << "USD" >>
                    ELSE currencyMap[i].code
    /\ ret[1] # << "BRL" >>
    /\ ContainsNoSymbol => ret[1] = << "USD" >>


====
